---- MODULE Spec2Model ----
(***************************************************************************)
(* State-machine model of the invoice / stock / ownership engine of the    *)
(* furniture-retail backend (src/api/sales.py, src/api/expenses.py,        *)
(* src/api/inventory.py).  Every request handler is cut at its `await`     *)
(* points: each database call is one atomic step, and the steps of two     *)
(* requests served at the same time interleave freely.                     *)
(***************************************************************************)
EXTENDS Integers, Sequences, FiniteSets, TLC

(* ------------------------------ bounds --------------------------------- *)
\* requests started in one behaviour when they are served one at a time
MaxRequests == 3
\* requests started in one behaviour when two are served at a time
MaxOverlapping == 2
\* items in one batch request
MaxItems == 2
\* largest quantity a request asks for
MaxQty == 2
\* on-hand quantity of each product in the initial inventory
InitStock == 2
\* seconds the clock advances in one behaviour
MaxTicks == 1

(* ------------------------- program constants --------------------------- *)
\* str(next_val).zfill(6)
InvoiceWidth == 6
\* int(time.time()) % 1000000
FallbackModulus == 1000000

\* the clock starts one second before the fallback number wraps around
FirstSecond == FallbackModulus - 1

(* ----------------------------- principals ------------------------------ *)
Admin == [id |-> "1", role |-> "admin"]
StaffA == [id |-> "2", role |-> "staff"]
StaffB == [id |-> "3", role |-> "staff"]
Principals == {Admin, StaffA, StaffB}

\* the requests served at the same time: two worker slots
Workers == {1, 2}

(* ------------------------------ strings -------------------------------- *)
\* A Python string is a sequence of one-character strings; None is <<>>
\* (no handler ever stores or receives an empty invoice_no).
None == <<>>

DigitChar(d) ==
    CASE d = 0 -> "0" [] d = 1 -> "1" [] d = 2 -> "2" [] d = 3 -> "3"
      [] d = 4 -> "4" [] d = 5 -> "5" [] d = 6 -> "6" [] d = 7 -> "7"
      [] d = 8 -> "8" [] d = 9 -> "9"

\* str(n) for n >= 0
RECURSIVE Str(_)
Str(n) == IF n < 10 THEN <<DigitChar(n)>> ELSE Str(n \div 10) \o <<DigitChar(n % 10)>>

\* s.zfill(width): pads on the left, never truncates
RECURSIVE ZFill(_, _)
ZFill(s, width) == IF Len(s) >= width THEN s ELSE ZFill(<<"0">> \o s, width)

\* f"INV-{str(next_val).zfill(6)}"
InvoiceNo(next_val) == <<"I", "N", "V", "-">> \o ZFill(Str(next_val), InvoiceWidth)

\* sum(f[x] for x in S)
RECURSIVE SumOf(_, _)
SumOf(f, S) ==
    IF S = {} THEN 0
    ELSE LET x == CHOOSE y \in S : TRUE
         IN  f[x] + SumOf(f, S \ {x})

(* ------------------------------- state --------------------------------- *)
VARIABLES
    inventory,    \* rows of the inventory table
    sales,        \* rows of the sales table
    expenses,     \* rows of the expenses table
    invoice_seq,  \* last value of the database sequence invoice_seq
    ids,          \* last autoincrement id per table
    clock,        \* time.time() in whole seconds
    req,          \* per worker: the request being served and its locals
    started,      \* number of requests started so far
    issued        \* log of invoice allocations, in allocation order

vars == <<inventory, sales, expenses, invoice_seq, ids, clock, req, started, issued>>

(* ------------------------------ the store ------------------------------ *)
\* result of a lookup that finds nothing
NoRow == [id |-> 0]

\* find_unique(where={"id": id})
FindUnique(table, id) ==
    IF \E r \in table : r.id = id THEN CHOOSE r \in table : r.id = id ELSE NoRow

\* update(where={"id": id}, data=...) replaces the row, and is a no-op that
\* returns None when no row has the id
UpdateRow(table, id, new) ==
    {IF r.id = id THEN new ELSE r : r \in table}

\* delete(where={"id": id})
DeleteRow(table, id) == {r \in table : r.id # id}

Exists(table, id) == \E r \in table : r.id = id

(* ----------------------------- responses ------------------------------- *)
NoResult == [status |-> 0, detail |-> [msg |-> ""]]
Ok(status) == [status |-> status, detail |-> [msg |-> ""]]
\* HTTPException(status_code, detail): the detail is the message text with
\* the values formatted into it
HttpError(status, detail) == [status |-> status, detail |-> detail]

Idle == [op |-> "idle", pc |-> "idle", user |-> Admin, invoice_no |-> None,
         payment_type |-> "1", advance_amount |-> 0, items |-> <<>>, idx |-> 0,
         product |-> NoRow, created_sale |-> NoRow, created |-> <<>>,
         target |-> 0, restore |-> FALSE, data |-> [id |-> 0], existing |-> NoRow,
         mode |-> "none", allocs |-> 0, rows |-> {}, report |-> [id |-> 0], result |-> NoResult,
         no |-> 0, overlaps |-> {}, before |-> [inventory |-> {}, sales |-> {}, expenses |-> {}]]

Done(r, result) == [r EXCEPT !.pc = "done", !.result = result]

Busy(p) == req[p].pc \notin {"idle", "done"}

\* a request is taken up by the first free worker; `serial` asks that no other request
\* is being served (requests executed one at a time)
CanStart(p, serial) ==
    /\ req[p].pc = "idle"
    /\ \A q \in Workers : req[q].pc = "idle" => p <= q
    /\ started < (IF serial THEN MaxRequests ELSE MaxOverlapping)
    /\ serial => \A q \in Workers : ~Busy(q)

\* The request is taken up.  Three fields are bookkeeping of the model, read
\* by no handler: the request's number, the numbers of the requests in
\* service when it arrived, and the tables as they were when it arrived.
Begin(p, r) ==
    /\ req' = [req EXCEPT ![p] =
          [r EXCEPT !.no = started + 1,
                    !.overlaps = {req[q].no : q \in {w \in Workers : Busy(w)}},
                    !.before = [inventory |-> inventory, sales |-> sales,
                                expenses |-> expenses]]]
    /\ started' = started + 1

(* ---------------------- sale lines: shared pieces ---------------------- *)
\* the item the loop is at
Item(r) == r.items[r.idx]

\* a loop body without the stock check
StockNeverChecked(product, item) == FALSE

\* "if product.quantity < item.quantity": the stock check
InsufficientStock(product, item) == product.quantity < item.quantity

\* "new_quantity = product.quantity - item.quantity", from the product row
\* read before the sale row was created
DebitedQuantity(product, item) == product.quantity - item.quantity

\* "x if x else 0"
OrZero(x) == IF x # 0 THEN x ELSE 0

\* a sale row that is not stamped with the invoice number of its request
SaleDataUnstamped(r, item, product) ==
    [invoice_no |-> None,
     product_name |-> product.product_name,
     category |-> product.category,
     quantity |-> item.quantity,
     cost_price |-> product.cost_price,
     sale_price |-> item.sale_price,
     payment_type |-> r.payment_type,
     advance_amount |-> r.advance_amount,
     sold_by |-> r.user.id,
     edited |-> FALSE]

\* the data of db.sales.create in create_sale and create_bulk_sale
SaleData(r, item, product) ==
    [invoice_no |-> r.invoice_no,
     product_name |-> product.product_name,
     category |-> product.category,
     quantity |-> item.quantity,
     cost_price |-> product.cost_price,
     sale_price |-> item.sale_price,
     payment_type |-> r.payment_type,
     advance_amount |-> OrZero(r.advance_amount),
     sold_by |-> r.user.id,
     edited |-> FALSE]

\* "final_advance = sale_data.advance_amount if str(payment_type) != '1' else 0"
FinalAdvance(payment_type, advance_amount) ==
    IF payment_type # "1" THEN advance_amount ELSE 0

\* the data of db.sales.create in add_sale_items_to_invoice
AppendSaleData(r, item, product) ==
    [SaleData(r, item, product) EXCEPT
        !.advance_amount = OrZero(FinalAdvance(r.payment_type, r.advance_amount)),
        !.edited = TRUE]

\* a row as the table stores it: the data plus the autoincrement id
WithId(data, id) == [f \in DOMAIN data \cup {"id"} |-> IF f = "id" THEN id ELSE data[f]]

\* detail="Product not found" (create_sale),
\* detail=f"Product with ID {item.product_id} not found" (bulk, append)
ProductNotFound(op, item) ==
    IF op = "create_sale" THEN [msg |-> "Product not found"]
    ELSE [msg |-> "Product with ID not found", product_id |-> item.product_id]

\* detail=f"Insufficient quantity. Available: {product.quantity}" (create_sale),
\* detail=f"Insufficient quantity for {product.product_name}. Available:
\* {product.quantity}, Requested: {item.quantity}" (bulk, append)
InsufficientQuantity(op, product, item) ==
    IF op = "create_sale"
    THEN [msg |-> "Insufficient quantity", available |-> product.quantity]
    ELSE [msg |-> "Insufficient quantity for", product_name |-> product.product_name,
          available |-> product.quantity, requested |-> item.quantity]

\* find_unique of the item's product, then the two checks of the loop body
ReadProduct(p) ==
    LET r == req[p]
        item == Item(r)
        product == FindUnique(inventory, item.product_id)
    IN  /\ r.pc = "read"
        /\ req' = [req EXCEPT ![p] =
              IF product = NoRow
              THEN Done(r, HttpError(404, ProductNotFound(r.op, item)))
              ELSE IF InsufficientStock(product, item)
              THEN Done(r, HttpError(400, InsufficientQuantity(r.op, product, item)))
              ELSE [r EXCEPT !.pc = "create", !.product = product]]
        /\ UNCHANGED <<inventory, sales, expenses, invoice_seq, ids, clock, started, issued>>

\* db.sales.create(data=...)
InsertSale(p, data) ==
    LET r == req[p]
        row == WithId(data, ids.sales + 1)
    IN  /\ r.pc = "create"
        /\ sales' = sales \cup {row}
        /\ ids' = [ids EXCEPT !.sales = @ + 1]
        /\ req' = [req EXCEPT ![p] = [r EXCEPT !.pc = "write", !.created_sale = row]]
        /\ UNCHANGED <<inventory, expenses, invoice_seq, clock, started, issued>>

\* db.inventory.update(where={"id": product_id}, data={"quantity": ...}), the
\* append to the response list and the loop's step to the next item
WriteQuantity(p) ==
    LET r == req[p]
        item == Item(r)
        current == FindUnique(inventory, item.product_id)
        last == r.idx = Len(r.items)
    IN  /\ r.pc = "write"
        /\ inventory' =
              IF current = NoRow THEN inventory
              ELSE UpdateRow(inventory, item.product_id,
                             [current EXCEPT !.quantity = DebitedQuantity(r.product, item)])
        /\ req' = [req EXCEPT ![p] =
              [r EXCEPT !.created = Append(@, r.created_sale),
                        !.idx = IF last THEN @ ELSE @ + 1,
                        !.pc = IF last THEN "done" ELSE "read",
                        !.result = IF last THEN Ok(200) ELSE @]]
        /\ UNCHANGED <<sales, expenses, invoice_seq, ids, clock, started, issued>>

(* ----------------------------- create_sale ----------------------------- *)
StartCreateSale(p, serial, u, item, payment_type, advance_amount) ==
    /\ CanStart(p, serial)
    /\ Begin(p, [Idle EXCEPT !.op = "create_sale", !.pc = "read", !.user = u,
                             !.items = <<item>>, !.idx = 1,
                             !.payment_type = payment_type,
                             !.advance_amount = advance_amount])
    /\ UNCHANGED <<inventory, sales, expenses, invoice_seq, ids, clock, issued>>

CreateSaleRead(p) == req[p].op = "create_sale" /\ ReadProduct(p)

CreateSaleInsert(p) ==
    /\ req[p].op = "create_sale"
    /\ InsertSale(p, SaleData(req[p], Item(req[p]), req[p].product))

CreateSaleWrite(p) == req[p].op = "create_sale" /\ WriteQuantity(p)

(* --------------------------- create_bulk_sale -------------------------- *)
\* the "Validate each item" loop: the error of the first invalid item
RECURSIVE ValidateItems(_, _)
ValidateItems(items, i) ==
    IF i > Len(items) THEN NoResult
    ELSE IF items[i].product_id <= 0
    THEN HttpError(400, [msg |-> "Invalid product_id", product_id |-> items[i].product_id])
    ELSE IF items[i].quantity <= 0
    THEN HttpError(400, [msg |-> "Invalid quantity", quantity |-> items[i].quantity])
    ELSE IF items[i].sale_price <= 0
    THEN HttpError(400, [msg |-> "Invalid sale_price", sale_price |-> items[i].sale_price])
    ELSE ValidateItems(items, i + 1)

EmptyItems == HttpError(400, [msg |-> "At least one product is required"])

StartBulkSale(p, serial, u, items, payment_type, advance_amount) ==
    LET r == [Idle EXCEPT !.op = "bulk_sale", !.user = u, !.items = items,
                          !.payment_type = payment_type,
                          !.advance_amount = advance_amount]
    IN  /\ CanStart(p, serial)
        /\ Begin(p, IF items = <<>> THEN Done(r, EmptyItems)
                    ELSE IF ValidateItems(items, 1) # NoResult
                    THEN Done(r, ValidateItems(items, 1))
                    ELSE [r EXCEPT !.pc = "alloc"])
        /\ UNCHANGED <<inventory, sales, expenses, invoice_seq, ids, clock, issued>>

\* a sequence read that does not advance it (a plain SELECT of the last value)
NextValNotAdvancing(seq) == seq

\* SELECT nextval('invoice_seq'): the sequence advances and returns its new value
NextVal(seq) == seq + 1

\* "Generate ONE invoice_no for all items", primary path
Allocate(p) ==
    LET r == req[p]
        next_val == NextVal(invoice_seq)
    IN  /\ r.pc = "alloc"
        /\ invoice_seq' = next_val
        /\ req' = [req EXCEPT ![p] =
              [r EXCEPT !.pc = IF r.op = "bulk_sale" THEN "read" ELSE "create",
                        !.idx = 1, !.invoice_no = InvoiceNo(next_val),
                        !.mode = "sequence", !.allocs = @ + 1]]
        /\ issued' = Append(issued, [mode |-> "sequence", next_val |-> next_val,
                                     invoice_no |-> InvoiceNo(next_val)])
        /\ UNCHANGED <<inventory, sales, expenses, ids, clock, started>>

\* int(time.time()) % 1000000
FallbackVal(now) == now % FallbackModulus

\* the except branch: query_raw raised, the number comes from the clock
AllocateFallback(p) ==
    LET r == req[p]
        next_val == FallbackVal(clock)
    IN  /\ r.pc = "alloc"
        /\ req' = [req EXCEPT ![p] =
              [r EXCEPT !.pc = IF r.op = "bulk_sale" THEN "read" ELSE "create",
                        !.idx = 1, !.invoice_no = InvoiceNo(next_val),
                        !.mode = "fallback", !.allocs = @ + 1]]
        /\ issued' = Append(issued, [mode |-> "fallback", next_val |-> next_val,
                                     invoice_no |-> InvoiceNo(next_val)])
        /\ UNCHANGED <<inventory, sales, expenses, invoice_seq, ids, clock, started>>

BulkSaleAllocate(p) == req[p].op = "bulk_sale" /\ Allocate(p)

BulkSaleAllocateFallback(p) == req[p].op = "bulk_sale" /\ AllocateFallback(p)

BulkSaleRead(p) == req[p].op = "bulk_sale" /\ ReadProduct(p)

BulkSaleInsert(p) ==
    /\ req[p].op = "bulk_sale"
    /\ InsertSale(p, SaleData(req[p], Item(req[p]), req[p].product))

BulkSaleWrite(p) == req[p].op = "bulk_sale" /\ WriteQuantity(p)

(* ----------------------- add_sale_items_to_invoice --------------------- *)
StartAppendSale(p, serial, u, invoice_no, items, payment_type, advance_amount) ==
    LET r == [Idle EXCEPT !.op = "append_sale", !.user = u, !.items = items,
                          !.invoice_no = invoice_no,
                          !.payment_type = payment_type,
                          !.advance_amount = advance_amount]
    IN  /\ CanStart(p, serial)
        /\ Begin(p, IF items = <<>> THEN Done(r, EmptyItems)
                    ELSE IF u.role = "staff" THEN [r EXCEPT !.pc = "perm"]
                    ELSE [r EXCEPT !.pc = "read", !.idx = 1])
        /\ UNCHANGED <<inventory, sales, expenses, invoice_seq, ids, clock, issued>>

\* a lookup by invoice number alone, whoever owns the lines
HasLine(table, owner_field, invoice_no, u) ==
    \E row \in table : row.invoice_no = invoice_no

\* find_first(where={"invoice_no": invoice_no, <owner field>: str(user.id)})
OwnsLine(table, owner_field, invoice_no, u) ==
    \E row \in table : row.invoice_no = invoice_no /\ row[owner_field] = u.id

Forbidden(text) == HttpError(403, [msg |-> text])

\* "Permission: staff can only append to their own invoice"
AppendSalePermission(p) ==
    LET r == req[p]
    IN  /\ r.op = "append_sale"
        /\ r.pc = "perm"
        /\ req' = [req EXCEPT ![p] =
              IF ~OwnsLine(sales, "sold_by", r.invoice_no, r.user)
              THEN Done(r, Forbidden("You don't have permission to add items to this invoice"))
              ELSE [r EXCEPT !.pc = "read", !.idx = 1]]
        /\ UNCHANGED <<inventory, sales, expenses, invoice_seq, ids, clock, started, issued>>

AppendSaleRead(p) == req[p].op = "append_sale" /\ ReadProduct(p)

AppendSaleInsert(p) ==
    /\ req[p].op = "append_sale"
    /\ InsertSale(p, AppendSaleData(req[p], Item(req[p]), req[p].product))

AppendSaleWrite(p) == req[p].op = "append_sale" /\ WriteQuantity(p)

(* ----------------------------- update_sale ----------------------------- *)
\* An Optional field of a request body is a set: {} is None, {v} is the value.
Given(opt) == opt # {}
Value(opt) == CHOOSE v \in opt : TRUE

\* a permission check that lets every principal through
SaleNeverDenied(u, existing_sale) == FALSE

\* "if current_user.role != 'admin' and existing_sale.sold_by != str(current_user.id)"
SaleDenied(u, existing_sale) == u.role # "admin" /\ existing_sale.sold_by # u.id

\* an update that also takes the cost price again, from the body's sale price
UpdatedSaleRecosted(row, existing_sale, data) ==
    [row EXCEPT
        !.edited = TRUE,
        !.cost_price = IF Given(data.sale_price) THEN Value(data.sale_price) ELSE @,
        !.sale_price = IF Given(data.sale_price) THEN Value(data.sale_price) ELSE @]

\* "Build update data" and "Handle quantity change": the row update_sale
\* writes, from the body and the row it read
UpdatedSale(row, existing_sale, data) ==
    [row EXCEPT
        !.edited = TRUE,
        !.sale_price = IF Given(data.sale_price) THEN Value(data.sale_price) ELSE @,
        !.payment_type = IF Given(data.payment_type) THEN Value(data.payment_type) ELSE @,
        !.advance_amount = IF Given(data.advance_amount) THEN Value(data.advance_amount) ELSE @,
        !.quantity = IF Given(data.quantity) /\ Value(data.quantity) # existing_sale.quantity
                     THEN Value(data.quantity) ELSE @]

StartUpdateSale(p, serial, u, sale_id, data) ==
    /\ CanStart(p, serial)
    /\ Begin(p, [Idle EXCEPT !.op = "update_sale", !.pc = "find", !.user = u,
                             !.target = sale_id, !.data = data])
    /\ UNCHANGED <<inventory, sales, expenses, invoice_seq, ids, clock, issued>>

\* "Get existing sale" and "Check permissions"
UpdateSaleFind(p) ==
    LET r == req[p]
        existing_sale == FindUnique(sales, r.target)
    IN  /\ r.op = "update_sale"
        /\ r.pc = "find"
        /\ req' = [req EXCEPT ![p] =
              IF existing_sale = NoRow
              THEN Done(r, HttpError(404, [msg |-> "Sale not found"]))
              ELSE IF SaleDenied(r.user, existing_sale)
              THEN Done(r, Forbidden("You don't have permission to edit this sale"))
              ELSE [r EXCEPT !.pc = "update", !.existing = existing_sale]]
        /\ UNCHANGED <<inventory, sales, expenses, invoice_seq, ids, clock, started, issued>>

\* db.sales.update(where={"id": sale_id}, data=update_data)
UpdateSaleWrite(p) ==
    LET r == req[p]
        row == FindUnique(sales, r.target)
    IN  /\ r.op = "update_sale"
        /\ r.pc = "update"
        /\ sales' = IF row = NoRow THEN sales
                    ELSE UpdateRow(sales, r.target, UpdatedSale(row, r.existing, r.data))
        /\ req' = [req EXCEPT ![p] =
              IF row = NoRow
              THEN Done(r, HttpError(400, [msg |-> "Failed to update sale"]))
              ELSE Done(r, Ok(200))]
        /\ UNCHANGED <<inventory, expenses, invoice_seq, ids, clock, started, issued>>

(* ----------------------------- delete_sale ----------------------------- *)
StartDeleteSale(p, serial, u, sale_id, restore_inventory) ==
    /\ CanStart(p, serial)
    /\ Begin(p, [Idle EXCEPT !.op = "delete_sale", !.pc = "find", !.user = u,
                             !.target = sale_id, !.restore = restore_inventory])
    /\ UNCHANGED <<inventory, sales, expenses, invoice_seq, ids, clock, issued>>

\* "Get existing sale" and "Check permissions"
DeleteSaleFind(p) ==
    LET r == req[p]
        existing_sale == FindUnique(sales, r.target)
    IN  /\ r.op = "delete_sale"
        /\ r.pc = "find"
        /\ req' = [req EXCEPT ![p] =
              IF existing_sale = NoRow
              THEN Done(r, HttpError(404, [msg |-> "Sale not found"]))
              ELSE IF SaleDenied(r.user, existing_sale)
              THEN Done(r, Forbidden("You don't have permission to delete this sale"))
              ELSE [r EXCEPT !.pc = IF r.restore THEN "find_product" ELSE "delete",
                             !.existing = existing_sale]]
        /\ UNCHANGED <<inventory, sales, expenses, invoice_seq, ids, clock, started, issued>>

\* the rows find_first(where={"product_name": ..., "category": ...}) may return:
\* the query has no order, so any matching row can be the first
MatchingProducts(table, sale) ==
    {row \in table : row.product_name = sale.product_name /\ row.category = sale.category}

\* "Find product by name and category"
DeleteSaleFindProduct(p) ==
    LET r == req[p]
        found == MatchingProducts(inventory, r.existing)
    IN  /\ r.op = "delete_sale"
        /\ r.pc = "find_product"
        /\ \E product \in (IF found = {} THEN {NoRow} ELSE found) :
              req' = [req EXCEPT ![p] =
                 [r EXCEPT !.pc = IF product = NoRow THEN "delete" ELSE "restore",
                           !.product = product]]
        /\ UNCHANGED <<inventory, sales, expenses, invoice_seq, ids, clock, started, issued>>

\* "new_quantity = product.quantity + existing_sale.quantity"
\* a restore that writes the quantity it read
QuantityAsRead(product, existing_sale) == product.quantity

RestoredQuantity(product, existing_sale) == product.quantity + existing_sale.quantity

\* "Add the quantity back to inventory"
DeleteSaleRestore(p) ==
    LET r == req[p]
        current == FindUnique(inventory, r.product.id)
    IN  /\ r.op = "delete_sale"
        /\ r.pc = "restore"
        /\ inventory' =
              IF current = NoRow THEN inventory
              ELSE UpdateRow(inventory, r.product.id,
                             [current EXCEPT !.quantity = RestoredQuantity(r.product, r.existing)])
        /\ req' = [req EXCEPT ![p] = [r EXCEPT !.pc = "delete"]]
        /\ UNCHANGED <<sales, expenses, invoice_seq, ids, clock, started, issued>>

\* db.sales.delete(where={"id": sale_id}), None when the row is gone
DeleteSaleDelete(p) ==
    LET r == req[p]
    IN  /\ r.op = "delete_sale"
        /\ r.pc = "delete"
        /\ sales' = DeleteRow(sales, r.target)
        /\ req' = [req EXCEPT ![p] =
              IF ~Exists(sales, r.target)
              THEN Done(r, HttpError(404, [msg |-> "Sale not found"]))
              ELSE Done(r, Ok(204))]
        /\ UNCHANGED <<inventory, expenses, invoice_seq, ids, clock, started, issued>>

(* ------------------------------ inventory ------------------------------ *)
\* the data of db.inventory.create in create_inventory_product and
\* create_bulk_inventory
ProductData(r, item) ==
    [invoice_no |-> r.invoice_no,
     product_name |-> item.product_name,
     category |-> item.category,
     cost_price |-> item.cost_price,
     quantity |-> item.quantity,
     added_by |-> r.user.id,
     edited |-> FALSE]

\* the data of db.inventory.create in add_inventory_items_to_invoice
AppendProductData(r, item) == [ProductData(r, item) EXCEPT !.edited = TRUE]

\* db.inventory.create(data=...), the append to the response list and the
\* loop's step to the next item
InsertProduct(p, data) ==
    LET r == req[p]
        row == WithId(data, ids.inventory + 1)
        last == r.idx = Len(r.items)
    IN  /\ r.pc = "create"
        /\ inventory' = inventory \cup {row}
        /\ ids' = [ids EXCEPT !.inventory = @ + 1]
        /\ req' = [req EXCEPT ![p] =
              [r EXCEPT !.created = Append(@, row),
                        !.idx = IF last THEN @ ELSE @ + 1,
                        !.pc = IF last THEN "done" ELSE "create",
                        !.result = IF last THEN Ok(200) ELSE @]]
        /\ UNCHANGED <<sales, expenses, invoice_seq, clock, started, issued>>

\* create_inventory_product: one db.inventory.create
CreateInventoryProduct(p, serial, u, item) ==
    LET r == [Idle EXCEPT !.op = "create_product", !.user = u, !.items = <<item>>]
        row == WithId(ProductData(r, item), ids.inventory + 1)
    IN  /\ CanStart(p, serial)
        /\ inventory' = inventory \cup {row}
        /\ ids' = [ids EXCEPT !.inventory = @ + 1]
        /\ Begin(p, Done([r EXCEPT !.created = <<row>>], Ok(200)))
        /\ UNCHANGED <<sales, expenses, invoice_seq, clock, issued>>

EmptyInventoryItems == HttpError(400, [msg |-> "At least one inventory item is required"])

StartBulkInventory(p, serial, u, items) ==
    LET r == [Idle EXCEPT !.op = "bulk_inventory", !.user = u, !.items = items]
    IN  /\ CanStart(p, serial)
        /\ Begin(p, IF items = <<>> THEN Done(r, EmptyInventoryItems)
                    ELSE [r EXCEPT !.pc = "alloc"])
        /\ UNCHANGED <<inventory, sales, expenses, invoice_seq, ids, clock, issued>>

BulkInventoryAllocate(p) == req[p].op = "bulk_inventory" /\ Allocate(p)

BulkInventoryAllocateFallback(p) == req[p].op = "bulk_inventory" /\ AllocateFallback(p)

BulkInventoryInsert(p) ==
    /\ req[p].op = "bulk_inventory"
    /\ InsertProduct(p, ProductData(req[p], Item(req[p])))

StartAppendInventory(p, serial, u, invoice_no, items) ==
    LET r == [Idle EXCEPT !.op = "append_inventory", !.user = u, !.items = items,
                          !.invoice_no = invoice_no]
    IN  /\ CanStart(p, serial)
        /\ Begin(p, IF items = <<>> THEN Done(r, EmptyInventoryItems)
                    ELSE [r EXCEPT !.pc = "create", !.idx = 1])
        /\ UNCHANGED <<inventory, sales, expenses, invoice_seq, ids, clock, issued>>

AppendInventoryInsert(p) ==
    /\ req[p].op = "append_inventory"
    /\ InsertProduct(p, AppendProductData(req[p], Item(req[p])))

\* "Build update data (only include fields that were provided)"
UpdatedProduct(row, data) ==
    [row EXCEPT
        !.edited = TRUE,
        !.product_name = IF Given(data.product_name) THEN Value(data.product_name) ELSE @,
        !.category = IF Given(data.category) THEN Value(data.category) ELSE @,
        !.cost_price = IF Given(data.cost_price) THEN Value(data.cost_price) ELSE @,
        !.quantity = IF Given(data.quantity) THEN Value(data.quantity) ELSE @]

StartUpdateProduct(p, serial, u, product_id, data) ==
    /\ CanStart(p, serial)
    /\ Begin(p, [Idle EXCEPT !.op = "update_product", !.pc = "find", !.user = u,
                             !.target = product_id, !.data = data])
    /\ UNCHANGED <<inventory, sales, expenses, invoice_seq, ids, clock, issued>>

\* "Get existing product"
UpdateProductFind(p) ==
    LET r == req[p]
        existing_product == FindUnique(inventory, r.target)
    IN  /\ r.op = "update_product"
        /\ r.pc = "find"
        /\ req' = [req EXCEPT ![p] =
              IF existing_product = NoRow
              THEN Done(r, HttpError(404, [msg |-> "Product not found"]))
              ELSE [r EXCEPT !.pc = "update", !.existing = existing_product]]
        /\ UNCHANGED <<inventory, sales, expenses, invoice_seq, ids, clock, started, issued>>

\* db.inventory.update(where={"id": product_id}, data=update_data)
UpdateProductWrite(p) ==
    LET r == req[p]
        row == FindUnique(inventory, r.target)
    IN  /\ r.op = "update_product"
        /\ r.pc = "update"
        /\ inventory' = IF row = NoRow THEN inventory
                        ELSE UpdateRow(inventory, r.target, UpdatedProduct(row, r.data))
        /\ req' = [req EXCEPT ![p] =
              IF row = NoRow
              THEN Done(r, HttpError(400, [msg |-> "Failed to update product"]))
              ELSE Done(r, Ok(200))]
        /\ UNCHANGED <<sales, expenses, invoice_seq, ids, clock, started, issued>>

StartDeleteProduct(p, serial, u, product_id) ==
    /\ CanStart(p, serial)
    /\ Begin(p, [Idle EXCEPT !.op = "delete_product", !.pc = "find", !.user = u,
                             !.target = product_id])
    /\ UNCHANGED <<inventory, sales, expenses, invoice_seq, ids, clock, issued>>

DeleteProductFind(p) ==
    LET r == req[p]
        existing_product == FindUnique(inventory, r.target)
    IN  /\ r.op = "delete_product"
        /\ r.pc = "find"
        /\ req' = [req EXCEPT ![p] =
              IF existing_product = NoRow
              THEN Done(r, HttpError(404, [msg |-> "Product not found"]))
              ELSE [r EXCEPT !.pc = "delete", !.existing = existing_product]]
        /\ UNCHANGED <<inventory, sales, expenses, invoice_seq, ids, clock, started, issued>>

\* db.inventory.delete(where={"id": product_id}), None when the row is gone
DeleteProductDelete(p) ==
    LET r == req[p]
    IN  /\ r.op = "delete_product"
        /\ r.pc = "delete"
        /\ inventory' = DeleteRow(inventory, r.target)
        /\ req' = [req EXCEPT ![p] =
              IF ~Exists(inventory, r.target)
              THEN Done(r, HttpError(404, [msg |-> "Product not found"]))
              ELSE Done(r, Ok(204))]
        /\ UNCHANGED <<sales, expenses, invoice_seq, ids, clock, started, issued>>

(* ------------------------------ expenses ------------------------------- *)
\* the literal " - " between material and vendor name
Delimiter == <<" ", "-", " ">>

Unknown == <<"U", "n", "k", "n", "o", "w", "n">>

\* f"{material_name} - {vendor_name}"
CombinedName(material_name, vendor_name) == material_name \o Delimiter \o vendor_name

\* index of the first occurrence of " - " in s at or after i, 0 when there is none
RECURSIVE FindDelimiter(_, _)
FindDelimiter(s, i) ==
    IF i + Len(Delimiter) - 1 > Len(s) THEN 0
    ELSE IF SubSeq(s, i, i + Len(Delimiter) - 1) = Delimiter THEN i
    ELSE FindDelimiter(s, i + 1)

\* 'if " - " in name: parts = name.split(" - ", 1) ... else: vendor_name = "Unknown"'
SplitName(s) ==
    LET i == FindDelimiter(s, 1)
    IN  IF i = 0 THEN [material_name |-> s, vendor_name |-> Unknown]
        ELSE [material_name |-> SubSeq(s, 1, i - 1),
              vendor_name |-> SubSeq(s, i + Len(Delimiter), Len(s))]

\* the data of db.expenses.create in create_expense and create_bulk_expense
ExpenseData(r, item) ==
    [invoice_no |-> r.invoice_no,
     material_name |-> CombinedName(item.material_name, item.vendor_name),
     amount |-> item.amount,
     payment_method |-> r.payment_type,
     advance_amount |-> OrZero(r.advance_amount),
     added_by |-> r.user.id,
     used |-> FALSE,
     edited |-> FALSE]

\* the data of db.expenses.create in add_expense_items_to_invoice
AppendExpenseData(r, item) ==
    [ExpenseData(r, item) EXCEPT
        !.advance_amount = OrZero(FinalAdvance(r.payment_type, r.advance_amount)),
        !.edited = TRUE]

\* db.expenses.create(data=...), the append to the response list and the
\* loop's step to the next item
InsertExpense(p, data) ==
    LET r == req[p]
        row == WithId(data, ids.expenses + 1)
        last == r.idx = Len(r.items)
    IN  /\ r.pc = "create"
        /\ expenses' = expenses \cup {row}
        /\ ids' = [ids EXCEPT !.expenses = @ + 1]
        /\ req' = [req EXCEPT ![p] =
              [r EXCEPT !.created = Append(@, row),
                        !.idx = IF last THEN @ ELSE @ + 1,
                        !.pc = IF last THEN "done" ELSE "create",
                        !.result = IF last THEN Ok(200) ELSE @]]
        /\ UNCHANGED <<inventory, sales, invoice_seq, clock, started, issued>>

\* create_expense: one db.expenses.create
CreateExpense(p, serial, u, item, payment_method, advance_amount) ==
    LET r == [Idle EXCEPT !.op = "create_expense", !.user = u, !.items = <<item>>,
                          !.payment_type = payment_method,
                          !.advance_amount = advance_amount]
        row == WithId(ExpenseData(r, item), ids.expenses + 1)
    IN  /\ CanStart(p, serial)
        /\ expenses' = expenses \cup {row}
        /\ ids' = [ids EXCEPT !.expenses = @ + 1]
        /\ Begin(p, Done([r EXCEPT !.created = <<row>>], Ok(200)))
        /\ UNCHANGED <<inventory, sales, invoice_seq, clock, issued>>

EmptyExpenseItems == HttpError(400, [msg |-> "At least one expense item is required"])

StartBulkExpense(p, serial, u, items, payment_method, advance_amount) ==
    LET r == [Idle EXCEPT !.op = "bulk_expense", !.user = u, !.items = items,
                          !.payment_type = payment_method,
                          !.advance_amount = advance_amount]
    IN  /\ CanStart(p, serial)
        /\ Begin(p, IF items = <<>> THEN Done(r, EmptyExpenseItems)
                    ELSE [r EXCEPT !.pc = "alloc"])
        /\ UNCHANGED <<inventory, sales, expenses, invoice_seq, ids, clock, issued>>

BulkExpenseAllocate(p) == req[p].op = "bulk_expense" /\ Allocate(p)

BulkExpenseAllocateFallback(p) == req[p].op = "bulk_expense" /\ AllocateFallback(p)

BulkExpenseInsert(p) ==
    /\ req[p].op = "bulk_expense"
    /\ InsertExpense(p, ExpenseData(req[p], Item(req[p])))

StartAppendExpense(p, serial, u, invoice_no, items, payment_method, advance_amount) ==
    LET r == [Idle EXCEPT !.op = "append_expense", !.user = u, !.items = items,
                          !.invoice_no = invoice_no,
                          !.payment_type = payment_method,
                          !.advance_amount = advance_amount]
    IN  /\ CanStart(p, serial)
        /\ Begin(p, IF items = <<>> THEN Done(r, EmptyExpenseItems)
                    ELSE IF u.role = "staff" THEN [r EXCEPT !.pc = "perm"]
                    ELSE [r EXCEPT !.pc = "create", !.idx = 1])
        /\ UNCHANGED <<inventory, sales, expenses, invoice_seq, ids, clock, issued>>

\* "Permission: staff can only append to their own invoice"
AppendExpensePermission(p) ==
    LET r == req[p]
    IN  /\ r.op = "append_expense"
        /\ r.pc = "perm"
        /\ req' = [req EXCEPT ![p] =
              IF ~OwnsLine(expenses, "added_by", r.invoice_no, r.user)
              THEN Done(r, Forbidden("You don't have permission to add items to this invoice"))
              ELSE [r EXCEPT !.pc = "create", !.idx = 1]]
        /\ UNCHANGED <<inventory, sales, expenses, invoice_seq, ids, clock, started, issued>>

AppendExpenseInsert(p) ==
    /\ req[p].op = "append_expense"
    /\ InsertExpense(p, AppendExpenseData(req[p], Item(req[p])))

\* "if current_user.role == 'staff' and expense_data.added_by != str(current_user.id)"
ExpenseDenied(u, expense_data) == u.role = "staff" /\ expense_data.added_by # u.id

\* "x if x else current": None and the empty string keep the current name
NameOr(opt, current) == IF Given(opt) /\ Value(opt) # <<>> THEN Value(opt) ELSE current

\* "Prepare update data": the row update_expense writes, from the body and
\* the row it read
UpdatedExpense(row, expense_data, data) ==
    LET current == SplitName(expense_data.material_name)
    IN  [row EXCEPT
            !.edited = TRUE,
            !.material_name = CombinedName(NameOr(data.material_name, current.material_name),
                                           NameOr(data.vendor_name, current.vendor_name)),
            !.amount = IF Given(data.amount) THEN Value(data.amount) ELSE @,
            !.payment_method = IF Given(data.payment_method) THEN Value(data.payment_method) ELSE @,
            !.advance_amount = IF Given(data.advance_amount) THEN Value(data.advance_amount) ELSE @,
            !.used = IF Given(data.used) THEN Value(data.used) ELSE @]

StartUpdateExpense(p, serial, u, expense_id, data) ==
    /\ CanStart(p, serial)
    /\ Begin(p, [Idle EXCEPT !.op = "update_expense", !.pc = "find", !.user = u,
                             !.target = expense_id, !.data = data])
    /\ UNCHANGED <<inventory, sales, expenses, invoice_seq, ids, clock, issued>>

\* "First, get the expense to check ownership" and "Check permissions"
UpdateExpenseFind(p) ==
    LET r == req[p]
        expense_data == FindUnique(expenses, r.target)
    IN  /\ r.op = "update_expense"
        /\ r.pc = "find"
        /\ req' = [req EXCEPT ![p] =
              IF expense_data = NoRow
              THEN Done(r, HttpError(404, [msg |-> "Expense not found"]))
              ELSE IF ExpenseDenied(r.user, expense_data)
              THEN Done(r, Forbidden("You can only edit your own expenses"))
              ELSE [r EXCEPT !.pc = "update", !.existing = expense_data]]
        /\ UNCHANGED <<inventory, sales, expenses, invoice_seq, ids, clock, started, issued>>

\* db.expenses.update(where={"id": expense_id}, data=update_data)
UpdateExpenseWrite(p) ==
    LET r == req[p]
        row == FindUnique(expenses, r.target)
    IN  /\ r.op = "update_expense"
        /\ r.pc = "update"
        /\ expenses' = IF row = NoRow THEN expenses
                       ELSE UpdateRow(expenses, r.target, UpdatedExpense(row, r.existing, r.data))
        /\ req' = [req EXCEPT ![p] =
              IF row = NoRow
              THEN Done(r, HttpError(400, [msg |-> "Failed to update expense"]))
              ELSE Done(r, Ok(200))]
        /\ UNCHANGED <<inventory, sales, invoice_seq, ids, clock, started, issued>>

StartDeleteExpense(p, serial, u, expense_id) ==
    /\ CanStart(p, serial)
    /\ Begin(p, [Idle EXCEPT !.op = "delete_expense", !.pc = "find", !.user = u,
                             !.target = expense_id])
    /\ UNCHANGED <<inventory, sales, expenses, invoice_seq, ids, clock, issued>>

DeleteExpenseFind(p) ==
    LET r == req[p]
        expense_data == FindUnique(expenses, r.target)
    IN  /\ r.op = "delete_expense"
        /\ r.pc = "find"
        /\ req' = [req EXCEPT ![p] =
              IF expense_data = NoRow
              THEN Done(r, HttpError(404, [msg |-> "Expense not found"]))
              ELSE IF ExpenseDenied(r.user, expense_data)
              THEN Done(r, Forbidden("You can only delete your own expenses"))
              ELSE [r EXCEPT !.pc = "delete", !.existing = expense_data]]
        /\ UNCHANGED <<inventory, sales, expenses, invoice_seq, ids, clock, started, issued>>

\* db.expenses.delete(where={"id": expense_id}), None when the row is gone
DeleteExpenseDelete(p) ==
    LET r == req[p]
    IN  /\ r.op = "delete_expense"
        /\ r.pc = "delete"
        /\ expenses' = DeleteRow(expenses, r.target)
        /\ req' = [req EXCEPT ![p] =
              IF ~Exists(expenses, r.target)
              THEN Done(r, HttpError(404, [msg |-> "Expense not found"]))
              ELSE Done(r, Ok(204))]
        /\ UNCHANGED <<inventory, sales, invoice_seq, ids, clock, started, issued>>

(* -------------------------------- reads -------------------------------- *)
\* a find_many whose where clause names the owner for every role
VisibleToOwner(table, owner_field, u) == {row \in table : row[owner_field] = u.id}

\* a find_many whose where clause never names the owner
VisibleToAll(table, owner_field, u) == table

\* find_many(where=...): the where clause the read handlers build, "sold_by"
\* or "added_by" added for staff only
Visible(table, owner_field, u) ==
    {row \in table : u.role = "staff" => row[owner_field] = u.id}

VisibleInvoice(table, owner_field, invoice_no, u) ==
    {row \in Visible(table, owner_field, u) : row.invoice_no = invoice_no}

\* a read handler answers in one database call
Read(p, serial, op, u, invoice_no, rows, result) ==
    /\ CanStart(p, serial)
    /\ Begin(p, Done([Idle EXCEPT !.op = op, !.user = u, !.invoice_no = invoice_no,
                                  !.rows = rows], result))
    /\ UNCHANGED <<inventory, sales, expenses, invoice_seq, ids, clock, issued>>

GetSales(p, serial, u) ==
    Read(p, serial, "get_sales", u, None, Visible(sales, "sold_by", u), Ok(200))

GetExpenses(p, serial, u) ==
    Read(p, serial, "get_expenses", u, None, Visible(expenses, "added_by", u), Ok(200))

GenerateExpenseInvoicePdf(p, serial, u, invoice_no) ==
    LET expenses_data == VisibleInvoice(expenses, "added_by", invoice_no, u)
    IN  Read(p, serial, "generate_expense_invoice_pdf", u, invoice_no, expenses_data,
             IF expenses_data = {} THEN HttpError(404, [msg |-> "Invoice not found"])
             ELSE Ok(200))

(* ------------------------ get_inventory_products ----------------------- *)
\* a find_many that returns the products the principal added
ProductsAddedBy(table, u) == {row \in table : row.added_by = u.id}

\* db.inventory.find_many(order=...): no where clause, whoever asks
SharedProducts(table, u) == table

GetInventoryProducts(p, serial, u) ==
    Read(p, serial, "get_inventory_products", u, None, SharedProducts(inventory, u), Ok(200))

(* -------------------------- get_dashboard_stats ----------------------- *)
\* Amounts of money are held in thousandths of the currency unit.
Unit == 1000

\* float(sale.sale_price) * sale.quantity
Revenue(sale) == sale.sale_price * sale.quantity

\* the cost of one unit, whatever the quantity
CostOfOneUnit(sale) == sale.cost_price

\* float(sale.cost_price) * sale.quantity
Cogs(sale) == sale.cost_price * sale.quantity

\* revenue minus expenses alone
ProfitWithoutCogs(total_sales, total_cogs, total_expenses) == total_sales - total_expenses

\* "Calculate net profit: Revenue - COGS - Operating Expenses"
Profit(total_sales, total_cogs, total_expenses) == total_sales - total_cogs - total_expenses

\* the outstanding amount of every sale, whatever its payment type
PendingOfAnySale(sale) == Revenue(sale) - OrZero(sale.advance_amount)

\* the term a sale adds to total_pending
PendingOf(sale) ==
    IF sale.payment_type = "2" THEN Revenue(sale) - OrZero(sale.advance_amount) ELSE 0

StartDashboard(p, serial, u) ==
    /\ CanStart(p, serial)
    /\ Begin(p, [Idle EXCEPT !.op = "dashboard", !.pc = "sales", !.user = u])
    /\ UNCHANGED <<inventory, sales, expenses, invoice_seq, ids, clock, issued>>

\* db.sales.find_many(where=sales_where) and the sales metrics
DashboardSales(p) ==
    LET r == req[p]
        sales_data == Visible(sales, "sold_by", r.user)
    IN  /\ r.op = "dashboard"
        /\ r.pc = "sales"
        /\ req' = [req EXCEPT ![p] = [r EXCEPT
              !.pc = "expenses",
              !.report = [total_sales |-> SumOf([sale \in sales_data |-> Revenue(sale)], sales_data),
                          total_cogs |-> SumOf([sale \in sales_data |-> Cogs(sale)], sales_data),
                          total_pending |->
                              SumOf([sale \in sales_data |-> PendingOf(sale)], sales_data),
                          sales_count |-> Cardinality(sales_data)]]]
        /\ UNCHANGED <<inventory, sales, expenses, invoice_seq, ids, clock, started, issued>>

\* db.expenses.find_many(where=expenses_where), total_expenses and total_profit
DashboardExpenses(p) ==
    LET r == req[p]
        expenses_data == Visible(expenses, "added_by", r.user)
        total_expenses == SumOf([expense \in expenses_data |-> expense.amount], expenses_data)
    IN  /\ r.op = "dashboard"
        /\ r.pc = "expenses"
        /\ req' = [req EXCEPT ![p] = [r EXCEPT
              !.pc = "inventory",
              !.report = [total_sales |-> r.report.total_sales,
                          total_cogs |-> r.report.total_cogs,
                          total_pending |-> r.report.total_pending,
                          sales_count |-> r.report.sales_count,
                          total_expenses |-> total_expenses,
                          expenses_count |-> Cardinality(expenses_data),
                          total_profit |-> Profit(r.report.total_sales, r.report.total_cogs,
                                                  total_expenses)]]]
        /\ UNCHANGED <<inventory, sales, expenses, invoice_seq, ids, clock, started, issued>>

\* db.inventory.find_many(), inventory_value and the response
DashboardInventory(p) ==
    LET r == req[p]
        inventory_data == inventory
    IN  /\ r.op = "dashboard"
        /\ r.pc = "inventory"
        /\ req' = [req EXCEPT ![p] = Done([r EXCEPT
              !.report = [total_sales |-> r.report.total_sales,
                          total_profit |-> r.report.total_profit,
                          total_expenses |-> r.report.total_expenses,
                          total_pending |-> r.report.total_pending,
                          inventory_value |->
                              SumOf([item \in inventory_data |-> item.cost_price * item.quantity],
                                    inventory_data),
                          sales_count |-> r.report.sales_count,
                          expenses_count |-> r.report.expenses_count,
                          inventory_count |-> Cardinality(inventory_data)]], Ok(200))]
        /\ UNCHANGED <<inventory, sales, expenses, invoice_seq, ids, clock, started, issued>>

(* --------------------------- generate_invoice -------------------------- *)
\* the first of the rows in the order of find_many(order={"created_at": "asc"}):
\* rows are created one at a time, so the oldest row has the least id
FirstOf(rows) == CHOOSE row \in rows : \A other \in rows : row.id <= other.id

\* "total_advance = float(getattr(first_sale_for_payment, 'advance_amount', None) or 0)"
AdvanceOfInvoice(sales_data) == OrZero(FirstOf(sales_data).advance_amount)

\* create_invoice_pdf: the figures of the summary section
InvoiceSummary(sales_data) ==
    LET total_amount == SumOf([sale \in sales_data |-> Revenue(sale)], sales_data)
        payment_type == FirstOf(sales_data).payment_type
        total_advance == AdvanceOfInvoice(sales_data)
    IN  [total_amount |-> total_amount,
         total_advance |-> total_advance,
         total_remaining |-> total_amount - total_advance,
         is_advance_payment |-> payment_type = "2" \/ total_advance > 0]

GenerateInvoice(p, serial, u, invoice_no) ==
    LET sales_data == VisibleInvoice(sales, "sold_by", invoice_no, u)
        r == [Idle EXCEPT !.op = "generate_invoice", !.user = u,
                          !.invoice_no = invoice_no, !.rows = sales_data]
    IN  /\ CanStart(p, serial)
        /\ Begin(p, IF sales_data = {} THEN Done(r, HttpError(404, [msg |-> "Invoice not found"]))
                    ELSE Done([r EXCEPT !.report = InvoiceSummary(sales_data)], Ok(200)))
        /\ UNCHANGED <<inventory, sales, expenses, invoice_seq, ids, clock, issued>>

(* --------------------------- get_monthly_report ------------------------ *)
\* A created_at value is <<year, month, day>>; a < b in the order of time
Earlier(a, b) ==
    \/ a[1] < b[1]
    \/ a[1] = b[1] /\ a[2] < b[2]
    \/ a[1] = b[1] /\ a[2] = b[2] /\ a[3] < b[3]

\* datetime(year, month_num, 1)
MonthStart(year, month_num) == <<year, month_num, 1>>

\* datetime(year, month_num + 1, 1) if month_num < 12 else datetime(year + 1, 1, 1)
MonthEnd(year, month_num) ==
    IF month_num < 12 THEN <<year, month_num + 1, 1>> ELSE <<year + 1, 1, 1>>

\* a range that takes in its upper bound ('lte' in place of 'lt')
InMonthClosed(table, year, month_num) ==
    {row \in table : /\ ~Earlier(row.created_at, MonthStart(year, month_num))
                     /\ ~Earlier(MonthEnd(year, month_num), row.created_at)}

\* find_many(where={'created_at': {'gte': ..., 'lt': ...}})
InMonth(table, year, month_num) ==
    {row \in table : /\ ~Earlier(row.created_at, MonthStart(year, month_num))
                     /\ Earlier(row.created_at, MonthEnd(year, month_num))}

\* round(x, 2), x in thousandths: to the nearest hundredth, a half to the even one
Round2(x) ==
    LET rest == x % 10
        down == x - rest
    IN  IF rest < 5 THEN down
        ELSE IF rest > 5 THEN down + 10
        ELSE IF (down \div 10) % 2 = 0 THEN down ELSE down + 10

StartMonthlyReport(p, serial, u, year) ==
    /\ CanStart(p, serial)
    /\ Begin(p, [Idle EXCEPT !.op = "monthly_report", !.pc = "month_sales", !.user = u,
                             !.target = year, !.idx = 1,
                             !.report = [months |-> <<>>, total_revenue |-> 0,
                                         total_cogs |-> 0, total_expenses |-> 0,
                                         month_revenue |-> 0, month_cogs |-> 0]])
    /\ UNCHANGED <<inventory, sales, expenses, invoice_seq, ids, clock, issued>>

\* the month's db.sales.find_many, month_revenue and month_cogs
MonthlyReportSales(p) ==
    LET r == req[p]
        month_sales == InMonth(sales, r.target, r.idx)
    IN  /\ r.op = "monthly_report"
        /\ r.pc = "month_sales"
        /\ req' = [req EXCEPT ![p] = [r EXCEPT
              !.pc = "month_expenses",
              !.report.month_revenue =
                  SumOf([sale \in month_sales |-> Revenue(sale)], month_sales),
              !.report.month_cogs = SumOf([sale \in month_sales |-> Cogs(sale)], month_sales)]]
        /\ UNCHANGED <<inventory, sales, expenses, invoice_seq, ids, clock, started, issued>>

\* the month's db.expenses.find_many, month_profit, the totals and the
\* MonthlyData; after month 12 the yearly totals and the response
MonthlyReportExpenses(p) ==
    LET r == req[p]
        month_expenses_rows == InMonth(expenses, r.target, r.idx)
        month_expenses ==
            SumOf([expense \in month_expenses_rows |-> expense.amount], month_expenses_rows)
        month_profit == Profit(r.report.month_revenue, r.report.month_cogs, month_expenses)
        total_revenue == r.report.total_revenue + r.report.month_revenue
        total_cogs == r.report.total_cogs + r.report.month_cogs
        total_expenses == r.report.total_expenses + month_expenses
        monthly_data == Append(r.report.months,
                               [month_number |-> r.idx,
                                revenue |-> Round2(r.report.month_revenue),
                                expenses |-> Round2(month_expenses),
                                profit |-> Round2(month_profit)])
    IN  /\ r.op = "monthly_report"
        /\ r.pc = "month_expenses"
        /\ req' = [req EXCEPT ![p] =
              IF r.idx < 12
              THEN [r EXCEPT !.pc = "month_sales", !.idx = r.idx + 1,
                             !.report = [months |-> monthly_data,
                                         total_revenue |-> total_revenue,
                                         total_cogs |-> total_cogs,
                                         total_expenses |-> total_expenses,
                                         month_revenue |-> 0, month_cogs |-> 0]]
              ELSE Done([r EXCEPT
                     !.report = [months |-> monthly_data,
                                 total_revenue |-> Round2(total_revenue),
                                 total_expenses |-> Round2(total_expenses),
                                 total_profit |->
                                     Round2(Profit(total_revenue, total_cogs, total_expenses))]],
                     Ok(200))]
        /\ UNCHANGED <<inventory, sales, expenses, invoice_seq, ids, clock, started, issued>>

\* a second passes
Tick ==
    /\ clock < FirstSecond + MaxTicks
    /\ clock' = clock + 1
    /\ UNCHANGED <<inventory, sales, expenses, invoice_seq, ids, req, started, issued>>

\* the response has been sent: the worker is free again
Return(p) ==
    /\ req[p].pc = "done"
    /\ req' = [req EXCEPT ![p] = Idle]
    /\ UNCHANGED <<inventory, sales, expenses, invoice_seq, ids, clock, started, issued>>

(* --------------------------- initial states ---------------------------- *)
Oak == <<"o", "a", "k">>
Ace == <<"A", "c", "e">>

\* the inventory after two single receipts by the admin
Chair == [id |-> 1, invoice_no |-> None, product_name |-> "Chair", category |-> "Wood",
          cost_price |-> 1, quantity |-> InitStock, added_by |-> Admin.id, edited |-> FALSE]
Table == [id |-> 2, invoice_no |-> None, product_name |-> "Table", category |-> "Wood",
          cost_price |-> 2, quantity |-> InitStock, added_by |-> Admin.id, edited |-> FALSE]

\* the largest id a table has given out, when no row was deleted
LastId(table) ==
    IF table = {} THEN 0 ELSE CHOOSE n \in {row.id : row \in table} : \A row \in table : row.id <= n

InitWith(products, sale_rows, expense_rows, last_value) ==
    /\ inventory = products
    /\ sales = sale_rows
    /\ expenses = expense_rows
    /\ invoice_seq = last_value
    /\ ids = [inventory |-> LastId(products), sales |-> LastId(sale_rows),
              expenses |-> LastId(expense_rows)]
    /\ clock = FirstSecond
    /\ req = [p \in Workers |-> Idle]
    /\ started = 0
    /\ issued = <<>>

(* --------------------------- request inputs ---------------------------- *)
\* sequences of 0..MaxItems members of S
Batches(S) == UNION {[1..n -> S] : n \in 0..MaxItems}

SaleItems(product_ids, quantities, prices) ==
    [product_id : product_ids, quantity : quantities, sale_price : prices]

(* ------------------------- serial stock engine ------------------------- *)
\* Sale requests and deletes with restore, one request at a time, by one
\* staff principal, against one product; product 3 does not exist.
SerialItems == SaleItems({1, 3}, {-1} \cup 1..MaxQty, {1})

SerialStart(p) ==
    \/ \E item \in SerialItems : StartCreateSale(p, TRUE, StaffA, item, "1", 0)
    \/ \E items \in Batches(SerialItems) : StartBulkSale(p, TRUE, StaffA, items, "1", 0)
    \/ \E items \in Batches(SerialItems) :
          StartAppendSale(p, TRUE, StaffA, InvoiceNo(1), items, "1", 0)
    \/ \E sale_id \in 1..MaxRequests : StartDeleteSale(p, TRUE, StaffA, sale_id, TRUE)

SaleSteps(p) ==
    \/ CreateSaleRead(p) \/ CreateSaleInsert(p) \/ CreateSaleWrite(p)
    \/ BulkSaleAllocate(p)
    \/ BulkSaleRead(p) \/ BulkSaleInsert(p) \/ BulkSaleWrite(p)
    \/ AppendSalePermission(p)
    \/ AppendSaleRead(p) \/ AppendSaleInsert(p) \/ AppendSaleWrite(p)
    \/ DeleteSaleFind(p) \/ DeleteSaleFindProduct(p)
    \/ DeleteSaleRestore(p) \/ DeleteSaleDelete(p)

SerialInit == InitWith({Chair}, {}, {}, 0)

SerialNext == \E p \in Workers : SerialStart(p) \/ SaleSteps(p) \/ Return(p)

SerialSpec == SerialInit /\ [][SerialNext]_vars

(* ----------------------- concurrent stock engine ----------------------- *)
\* Every handler that writes a Product row, two requests at a time in any
\* interleaving of their database calls.
StockItems == SaleItems({1}, 1..MaxQty, {1})

Receipts == [product_name : {"Chair"}, category : {"Wood"}, cost_price : {1},
             quantity : {1}]

\* InventoryUpdate bodies that set the quantity only
QuantityUpdates ==
    [product_name : {{}}, category : {{}}, cost_price : {{}}, quantity : {{-1}, {1}}]

StockStart(p) ==
    \/ \E item \in StockItems : StartCreateSale(p, FALSE, StaffA, item, "1", 0)
    \/ \E items \in Batches(StockItems) : StartBulkSale(p, FALSE, StaffA, items, "1", 0)
    \/ \E items \in Batches(StockItems) :
          StartAppendSale(p, FALSE, StaffA, InvoiceNo(1), items, "1", 0)
    \/ \E sale_id \in 1..2 : StartDeleteSale(p, FALSE, StaffA, sale_id, TRUE)
    \/ \E item \in Receipts : CreateInventoryProduct(p, FALSE, StaffA, item)
    \/ \E items \in Batches(Receipts) : StartBulkInventory(p, FALSE, StaffA, items)
    \/ \E items \in Batches(Receipts) :
          StartAppendInventory(p, FALSE, StaffA, InvoiceNo(1), items)
    \/ \E data \in QuantityUpdates : StartUpdateProduct(p, FALSE, StaffA, 1, data)

InventorySteps(p) ==
    \/ BulkInventoryAllocate(p) \/ BulkInventoryInsert(p)
    \/ AppendInventoryInsert(p)
    \/ UpdateProductFind(p) \/ UpdateProductWrite(p)

Init == InitWith({Chair}, {}, {}, 0)

Next == \E p \in Workers : StockStart(p) \/ SaleSteps(p) \/ InventorySteps(p) \/ Return(p)

Spec == Init /\ [][Next]_vars

(* -------------------------- invoice numbering -------------------------- *)
\* The three create-new-invoice handlers and the three append handlers, two
\* requests at a time; the sequence may be fresh or about to outgrow the
\* six digits, and the database sequence may be unreachable.
InvoiceSaleItems == SaleItems({1}, {1}, {1})

ExpenseItems == [material_name : {Oak}, vendor_name : {Ace}, amount : {1}]

SuppliedInvoices == {InvoiceNo(1)}

InvoiceStart(p) ==
    \/ \E items \in Batches(InvoiceSaleItems) : StartBulkSale(p, FALSE, Admin, items, "1", 0)
    \/ \E items \in Batches(ExpenseItems) : StartBulkExpense(p, FALSE, Admin, items, "1", 0)
    \/ \E items \in Batches(Receipts) : StartBulkInventory(p, FALSE, Admin, items)
    \/ \E items \in Batches(InvoiceSaleItems), invoice_no \in SuppliedInvoices :
          StartAppendSale(p, FALSE, Admin, invoice_no, items, "1", 0)
    \/ \E items \in Batches(ExpenseItems), invoice_no \in SuppliedInvoices :
          StartAppendExpense(p, FALSE, Admin, invoice_no, items, "1", 0)
    \/ \E items \in Batches(Receipts), invoice_no \in SuppliedInvoices :
          StartAppendInventory(p, FALSE, Admin, invoice_no, items)

InvoiceSteps(p) ==
    \/ BulkSaleAllocate(p) \/ BulkSaleAllocateFallback(p)
    \/ BulkSaleRead(p) \/ BulkSaleInsert(p) \/ BulkSaleWrite(p)
    \/ AppendSaleRead(p) \/ AppendSaleInsert(p) \/ AppendSaleWrite(p)
    \/ BulkExpenseAllocate(p) \/ BulkExpenseAllocateFallback(p) \/ BulkExpenseInsert(p)
    \/ AppendExpenseInsert(p)
    \/ BulkInventoryAllocate(p) \/ BulkInventoryAllocateFallback(p)
    \/ BulkInventoryInsert(p)
    \/ AppendInventoryInsert(p)

InvoiceInit == \E last_value \in {0, FallbackModulus - 1} : InitWith({Chair}, {}, {}, last_value)

InvoiceNext == (\E p \in Workers : InvoiceStart(p) \/ InvoiceSteps(p) \/ Return(p)) \/ Tick

InvoiceSpec == InvoiceInit /\ [][InvoiceNext]_vars

(* ----------------------- ownership and visibility ---------------------- *)
\* Requests of the admin and of two staff principals, one at a time, on a
\* store that holds a sale invoice INV-000001 (a line sold by staff "2", a
\* line appended by the admin) and an expense invoice INV-000002 of staff "2".
OwnedSale ==
    [id |-> 1, invoice_no |-> InvoiceNo(1), product_name |-> "Chair", category |-> "Wood",
     quantity |-> 1, cost_price |-> 1, sale_price |-> 1, payment_type |-> "1",
     advance_amount |-> 0, sold_by |-> StaffA.id, edited |-> FALSE]

AdminSale == [OwnedSale EXCEPT !.id = 2, !.sold_by = Admin.id, !.edited = TRUE]

OwnedExpense ==
    [id |-> 1, invoice_no |-> InvoiceNo(2), material_name |-> CombinedName(Oak, Ace),
     amount |-> 1, payment_method |-> "1", advance_amount |-> 0,
     added_by |-> StaffA.id, used |-> FALSE, edited |-> FALSE]

OwnerItems == SaleItems({1}, {1}, {1})

\* SalesUpdate bodies that change the quantity only
SaleUpdates ==
    [quantity : {{MaxQty}}, sale_price : {{}}, payment_type : {{}}, advance_amount : {{}}]

\* ExpenseUpdate bodies that change the amount only
ExpenseUpdates ==
    [material_name : {{}}, vendor_name : {{}}, amount : {{MaxQty}}, payment_method : {{}},
     advance_amount : {{}}, used : {{}}]

KnownInvoices == {InvoiceNo(1), InvoiceNo(2)}

OwnerStart(p) ==
    \/ \E u \in Principals, items \in Batches(OwnerItems), invoice_no \in KnownInvoices :
          StartAppendSale(p, TRUE, u, invoice_no, items, "1", 0)
    \/ \E u \in Principals, items \in Batches(ExpenseItems), invoice_no \in KnownInvoices :
          StartAppendExpense(p, TRUE, u, invoice_no, items, "1", 0)
    \/ \E u \in Principals, data \in SaleUpdates : StartUpdateSale(p, TRUE, u, 1, data)
    \/ \E u \in Principals, restore \in BOOLEAN : StartDeleteSale(p, TRUE, u, 1, restore)
    \/ \E u \in Principals, data \in ExpenseUpdates : StartUpdateExpense(p, TRUE, u, 1, data)
    \/ \E u \in Principals : StartDeleteExpense(p, TRUE, u, 1)
    \/ \E u \in Principals : GetSales(p, TRUE, u)
    \/ \E u \in Principals : GetExpenses(p, TRUE, u)
    \/ \E u \in Principals, invoice_no \in KnownInvoices : GenerateInvoice(p, TRUE, u, invoice_no)
    \/ \E u \in Principals, invoice_no \in KnownInvoices :
          GenerateExpenseInvoicePdf(p, TRUE, u, invoice_no)

OwnerSteps(p) ==
    \/ AppendSalePermission(p)
    \/ AppendSaleRead(p) \/ AppendSaleInsert(p) \/ AppendSaleWrite(p)
    \/ AppendExpensePermission(p) \/ AppendExpenseInsert(p)
    \/ UpdateSaleFind(p) \/ UpdateSaleWrite(p)
    \/ DeleteSaleFind(p) \/ DeleteSaleFindProduct(p)
    \/ DeleteSaleRestore(p) \/ DeleteSaleDelete(p)
    \/ UpdateExpenseFind(p) \/ UpdateExpenseWrite(p)
    \/ DeleteExpenseFind(p) \/ DeleteExpenseDelete(p)

OwnerInit == InitWith({Chair}, {OwnedSale, AdminSale}, {OwnedExpense}, 2)

OwnerNext == \E p \in Workers : OwnerStart(p) \/ OwnerSteps(p) \/ Return(p)

OwnerSpec == OwnerInit /\ [][OwnerNext]_vars

(* ------------------------ sales against the stock ---------------------- *)
\* Single sales, changes of a sale's quantity, deletes with and without
\* restore and the delete of a product, one request at a time, on a store
\* that holds two products and two sale lines of the first.
LedgerStart(p) ==
    \/ \E item \in SaleItems({1, 2}, 1..MaxQty, {1}) :
          StartCreateSale(p, TRUE, Admin, item, "1", 0)
    \/ \E sale_id \in 1..2, quantity \in 1..MaxQty :
          StartUpdateSale(p, TRUE, Admin, sale_id,
                          [quantity |-> {quantity}, sale_price |-> {}, payment_type |-> {},
                           advance_amount |-> {}])
    \/ \E sale_id \in 1..3, restore \in BOOLEAN : StartDeleteSale(p, TRUE, Admin, sale_id, restore)
    \/ StartDeleteProduct(p, TRUE, Admin, 1)

LedgerSteps(p) ==
    \/ CreateSaleRead(p) \/ CreateSaleInsert(p) \/ CreateSaleWrite(p)
    \/ UpdateSaleFind(p) \/ UpdateSaleWrite(p)
    \/ DeleteSaleFind(p) \/ DeleteSaleFindProduct(p)
    \/ DeleteSaleRestore(p) \/ DeleteSaleDelete(p)
    \/ DeleteProductFind(p) \/ DeleteProductDelete(p)

LedgerInit == InitWith({Chair, Table}, {OwnedSale, AdminSale}, {}, 1)

LedgerNext == \E p \in Workers : LedgerStart(p) \/ LedgerSteps(p) \/ Return(p)

LedgerSpec == LedgerInit /\ [][LedgerNext]_vars

(* ------------------------------- reports ------------------------------- *)
\* The dashboard and the monthly report, asked by the admin and by two staff
\* principals, on every store made of some of four sale lines and some of
\* two expenses of two staff principals and the admin, dated in and after
\* the reported year.
ReportYear == 2024

ReportSale(id, quantity, payment_type, advance_amount, u, created_at) ==
    [id |-> id, invoice_no |-> InvoiceNo(id), product_name |-> "Chair", category |-> "Wood",
     quantity |-> quantity, cost_price |-> 30 * Unit, sale_price |-> 50 * Unit,
     payment_type |-> payment_type, advance_amount |-> advance_amount * Unit,
     sold_by |-> u.id, edited |-> FALSE, created_at |-> created_at]

ReportSales ==
    {ReportSale(1, 2, "1", 30, StaffA, <<ReportYear, 1, 31>>),
     ReportSale(2, 2, "2", 30, StaffA, <<ReportYear, 12, 31>>),
     ReportSale(3, 1, "2", 0, StaffB, <<ReportYear, 2, 1>>),
     ReportSale(4, 1, "1", 0, Admin, <<ReportYear + 1, 1, 1>>)}

ReportExpense(id, amount, u, created_at) ==
    [id |-> id, invoice_no |-> InvoiceNo(4 + id), material_name |-> CombinedName(Oak, Ace),
     amount |-> amount * Unit, payment_method |-> "1", advance_amount |-> 0,
     added_by |-> u.id, used |-> FALSE, edited |-> FALSE, created_at |-> created_at]

ReportExpenses ==
    {ReportExpense(1, 20, StaffA, <<ReportYear, 1, 1>>),
     ReportExpense(2, 5, StaffB, <<ReportYear, 12, 1>>)}

ReportStart(p) ==
    \/ \E u \in Principals : StartDashboard(p, TRUE, u)
    \/ \E u \in Principals : StartMonthlyReport(p, TRUE, u, ReportYear)

ReportSteps(p) ==
    \/ DashboardSales(p) \/ DashboardExpenses(p) \/ DashboardInventory(p)
    \/ MonthlyReportSales(p) \/ MonthlyReportExpenses(p)

ReportInit ==
    \E sale_rows \in SUBSET ReportSales, expense_rows \in SUBSET ReportExpenses :
        InitWith({Chair, Table}, sale_rows, expense_rows, 6)

ReportNext == \E p \in Workers : ReportStart(p) \/ ReportSteps(p) \/ Return(p)

ReportSpec == ReportInit /\ [][ReportNext]_vars

(* ---------------------------- expense names ---------------------------- *)
\* create_expense, update_expense and get_expenses on every pair of names of
\* at most MaxNameLen characters, taken from a letter and the two characters
\* of the delimiter, that do not contain the delimiter.
MaxNameLen == 2

Names ==
    {s \in UNION {[1..n -> {"a", " ", "-"}] : n \in 0..MaxNameLen} : FindDelimiter(s, 1) = 0}

\* vendor names of at most one character
VendorNames == {s \in Names : Len(s) <= 1}

NameStart(p) ==
    \/ \E material_name \in Names, vendor_name \in VendorNames :
          CreateExpense(p, FALSE, Admin,
                        [material_name |-> material_name, vendor_name |-> vendor_name,
                         amount |-> 1], "1", 0)
    \/ \E material_name \in {{}} \cup {{s} : s \in Names}, vendor_name \in {{}, {<<"a">>}} :
          StartUpdateExpense(p, FALSE, Admin, 1,
                             [material_name |-> material_name, vendor_name |-> vendor_name,
                              amount |-> {}, payment_method |-> {}, advance_amount |-> {},
                              used |-> {}])
    \/ GetExpenses(p, FALSE, Admin)

NameSteps(p) == UpdateExpenseFind(p) \/ UpdateExpenseWrite(p)

NameInit == InitWith({Chair}, {}, {}, 0)

NameNext == \E p \in Workers : NameStart(p) \/ NameSteps(p) \/ Return(p)

NameSpec == NameInit /\ [][NameNext]_vars

(* --------------------------- shared inventory -------------------------- *)
\* Lists, updates and deletes of products by the admin and two staff
\* principals, one request at a time, on a store with a product added by
\* the admin and one added by a staff principal; product 3 does not exist.
SharedStart(p) ==
    \/ \E u \in Principals : GetInventoryProducts(p, TRUE, u)
    \/ \E u \in Principals, product_id \in 1..3, quantity \in {{}, {1}} :
          StartUpdateProduct(p, TRUE, u, product_id,
                             [product_name |-> {}, category |-> {},
                              cost_price |-> IF quantity = {} THEN {3} ELSE {},
                              quantity |-> quantity])
    \/ \E u \in Principals, product_id \in 1..3 : StartDeleteProduct(p, TRUE, u, product_id)

SharedSteps(p) ==
    \/ UpdateProductFind(p) \/ UpdateProductWrite(p)
    \/ DeleteProductFind(p) \/ DeleteProductDelete(p)

SharedInit == InitWith({Chair, [Table EXCEPT !.added_by = StaffA.id]}, {}, {}, 0)

SharedNext == \E p \in Workers : SharedStart(p) \/ SharedSteps(p) \/ Return(p)

SharedSpec == SharedInit /\ [][SharedNext]_vars

(* ---------------------------- invoice lines ---------------------------- *)
\* Bulk sales and appends paid in full or with an advance, updates of a
\* line's payment, price and quantity, a change of the product's cost price,
\* the delete of the product, the dashboard and the invoice document, asked
\* by the admin one request at a time on a store with one product and no sale.
LineStart(p) ==
    \/ \E items \in Batches(SaleItems({1}, {1}, {50})), advance_amount \in {0, 30} :
          StartBulkSale(p, TRUE, Admin, items,
                        IF advance_amount = 0 THEN "1" ELSE "2", advance_amount)
    \/ \E items \in Batches(SaleItems({1}, {1}, {50})), advance_amount \in {0, 30} :
          StartAppendSale(p, TRUE, Admin, InvoiceNo(1), items,
                          IF advance_amount = 0 THEN "1" ELSE "2", advance_amount)
    \/ \E sale_id \in 1..2, field \in {"quantity", "sale_price", "payment_type"} :
          StartUpdateSale(p, TRUE, Admin, sale_id,
                          [quantity |-> IF field = "quantity" THEN {MaxQty} ELSE {},
                           sale_price |-> IF field = "sale_price" THEN {40} ELSE {},
                           payment_type |-> IF field = "payment_type" THEN {"2"} ELSE {},
                           advance_amount |-> IF field = "payment_type" THEN {10} ELSE {}])
    \/ StartUpdateProduct(p, TRUE, Admin, 1,
                          [product_name |-> {}, category |-> {}, cost_price |-> {3},
                           quantity |-> {}])
    \/ StartDeleteProduct(p, TRUE, Admin, 1)
    \/ StartDashboard(p, TRUE, Admin)
    \/ GenerateInvoice(p, TRUE, Admin, InvoiceNo(1))

LineSteps(p) ==
    \/ BulkSaleAllocate(p)
    \/ BulkSaleRead(p) \/ BulkSaleInsert(p) \/ BulkSaleWrite(p)
    \/ AppendSaleRead(p) \/ AppendSaleInsert(p) \/ AppendSaleWrite(p)
    \/ UpdateSaleFind(p) \/ UpdateSaleWrite(p)
    \/ UpdateProductFind(p) \/ UpdateProductWrite(p)
    \/ DeleteProductFind(p) \/ DeleteProductDelete(p)
    \/ DashboardSales(p) \/ DashboardExpenses(p) \/ DashboardInventory(p)

LineInit == InitWith({Chair}, {}, {}, 0)

LineNext == \E p \in Workers : LineStart(p) \/ LineSteps(p) \/ Return(p)

LineSpec == LineInit /\ [][LineNext]_vars

(* ------------------------- deletes with restore ------------------------ *)
\* Single sales and deletes of a sale, with and without restore, two
\* requests at a time in any interleaving, on a store that holds one sale
\* line and either one Product row or two rows of the same product_name and
\* category (two receipts of the same product); sale 3 does not exist.
RestoreStart(p) ==
    \/ \E item \in SaleItems({1, 2}, 1..MaxQty, {1}) :
          StartCreateSale(p, FALSE, Admin, item, "1", 0)
    \/ \E sale_id \in 1..3, restore \in BOOLEAN :
          StartDeleteSale(p, FALSE, Admin, sale_id, restore)

RestoreSteps(p) ==
    \/ CreateSaleRead(p) \/ CreateSaleInsert(p) \/ CreateSaleWrite(p)
    \/ DeleteSaleFind(p) \/ DeleteSaleFindProduct(p)
    \/ DeleteSaleRestore(p) \/ DeleteSaleDelete(p)

RestoreInit ==
    \E products \in {{Chair}, {Chair, [Table EXCEPT !.product_name = Chair.product_name]}} :
        InitWith(products, {OwnedSale}, {}, 1)

RestoreNext == \E p \in Workers : RestoreStart(p) \/ RestoreSteps(p) \/ Return(p)

RestoreSpec == RestoreInit /\ [][RestoreNext]_vars

(* --------------------------- invoice ownership ------------------------- *)
\* Bulk sales and bulk expenses numbered by the sequence, appends, updates
\* and deletes by the admin and two staff principals, one request at a time,
\* on the store of the ownership checks: sale invoice INV-000001 of staff
\* "2" with a line appended by the admin, expense invoice INV-000002 of
\* staff "2"; the next number of the sequence is INV-000003.
TenantStart(p) ==
    \/ \E u \in Principals, items \in Batches(OwnerItems) :
          StartBulkSale(p, TRUE, u, items, "1", 0)
    \/ \E u \in Principals, items \in Batches(ExpenseItems) :
          StartBulkExpense(p, TRUE, u, items, "1", 0)
    \/ \E u \in Principals, invoice_no \in {InvoiceNo(1), InvoiceNo(3)} :
          StartAppendSale(p, TRUE, u, invoice_no, <<CHOOSE item \in OwnerItems : TRUE>>, "1", 0)
    \/ \E u \in Principals, invoice_no \in {InvoiceNo(2), InvoiceNo(3)} :
          StartAppendExpense(p, TRUE, u, invoice_no,
                             <<CHOOSE item \in ExpenseItems : TRUE>>, "1", 0)
    \/ \E u \in Principals, sale_id \in {1, 3}, data \in SaleUpdates :
          StartUpdateSale(p, TRUE, u, sale_id, data)
    \/ \E u \in Principals, sale_id \in {1, 3} : StartDeleteSale(p, TRUE, u, sale_id, FALSE)
    \/ \E u \in Principals, expense_id \in 1..2, data \in ExpenseUpdates :
          StartUpdateExpense(p, TRUE, u, expense_id, data)
    \/ \E u \in Principals, expense_id \in 1..2 : StartDeleteExpense(p, TRUE, u, expense_id)

TenantSteps(p) ==
    \/ BulkSaleAllocate(p)
    \/ BulkSaleRead(p) \/ BulkSaleInsert(p) \/ BulkSaleWrite(p)
    \/ BulkExpenseAllocate(p) \/ BulkExpenseInsert(p)
    \/ AppendSalePermission(p)
    \/ AppendSaleRead(p) \/ AppendSaleInsert(p) \/ AppendSaleWrite(p)
    \/ AppendExpensePermission(p) \/ AppendExpenseInsert(p)
    \/ UpdateSaleFind(p) \/ UpdateSaleWrite(p)
    \/ DeleteSaleFind(p) \/ DeleteSaleDelete(p)
    \/ UpdateExpenseFind(p) \/ UpdateExpenseWrite(p)
    \/ DeleteExpenseFind(p) \/ DeleteExpenseDelete(p)

TenantInit == InitWith({Chair}, {OwnedSale, AdminSale}, {OwnedExpense}, 2)

TenantNext == \E p \in Workers : TenantStart(p) \/ TenantSteps(p) \/ Return(p)

TenantSpec == TenantInit /\ [][TenantNext]_vars

(* ------------------------ properties: stock ---------------------------- *)
SaleOps == {"create_sale", "bulk_sale", "append_sale"}

BatchSaleOps == {"bulk_sale", "append_sale"}

Finished(p) == req[p].pc = "done"

Succeeded(p) == Finished(p) /\ req[p].result.status \in {200, 204}

\* the request was refused by the stock check
RefusedForStock(p) ==
    /\ Finished(p)
    /\ req[p].result.status = 400
    /\ req[p].result.detail.msg \in {"Insufficient quantity", "Insufficient quantity for"}

\* the request was refused because an item names a product that does not exist
RefusedForProduct(p) ==
    /\ Finished(p)
    /\ req[p].result.status = 404
    /\ req[p].result.detail.msg \in {"Product not found", "Product with ID not found"}

\* no request has arrived since this one
Latest(p) == req[p].no = started

Quantities(table) == {<<row.id, row.quantity>> : row \in table}

NonNegativeStock == \A row \in inventory : row.quantity >= 0

C2_QuantityNeverNegative == \A row \in inventory : ~(row.quantity < 0)

\* total quantity a batch asks of one product
RECURSIVE Requested(_, _)
Requested(items, product_id) ==
    IF items = <<>> THEN 0
    ELSE (IF Head(items).product_id = product_id THEN Head(items).quantity ELSE 0)
         + Requested(Tail(items), product_id)

\* the two requests were in service at the same time
Overlapping(p, q) == req[p].no \in req[q].overlaps \/ req[q].no \in req[p].overlaps

OnHandBefore(p, product_id) == FindUnique(req[p].before.inventory, product_id).quantity

CreateInvoiceOps == {"bulk_sale", "bulk_expense", "bulk_inventory"}

AppendOps == {"append_sale", "append_expense", "append_inventory"}

\* the table a handler writes its line records to
TableOf(op) ==
    CASE op \in {"bulk_sale", "append_sale"} -> sales
      [] op \in {"bulk_expense", "append_expense"} -> expenses
      [] op \in {"bulk_inventory", "append_inventory"} -> inventory

\* the line records the request has created so far, as the table holds them
LinesOf(p) ==
    LET made == {req[p].created[i].id : i \in DOMAIN req[p].created}
                   \cup {req[p].created_sale.id}
    IN  {row \in TableOf(req[p].op) : row.id \in made}

\* C6: of any two allocations on the sequence-backed path, the later one got
\* the strictly larger number, and the two invoice numbers are distinct
\* strings.
C6_SequencedInvoicesIncreaseAndDiffer ==
    \A i, j \in DOMAIN issued :
        i < j /\ issued[i].mode = "sequence" /\ issued[j].mode = "sequence" =>
            /\ issued[i].next_val < issued[j].next_val
            /\ issued[i].invoice_no # issued[j].invoice_no

\* two requests of different handlers in service together, both numbered by
\* the sequence
C6_Witness ==
    \E p, q \in Workers :
        /\ req[p].op = "bulk_sale" /\ req[q].op = "bulk_expense"
        /\ req[p].mode = "sequence" /\ req[q].mode = "sequence"
        /\ Overlapping(p, q)
        /\ Len(ZFill(Str(invoice_seq), InvoiceWidth)) > InvoiceWidth

OwnedAppendOps == {"append_sale", "append_expense"}

OwnedMutationOps == {"update_sale", "delete_sale", "update_expense", "delete_expense"}

InvoiceReadOps == {"generate_invoice", "generate_expense_invoice_pdf"}

ReadOps == {"get_sales", "get_expenses"} \cup InvoiceReadOps

SaleRecordOps == {"append_sale", "update_sale", "delete_sale", "get_sales", "generate_invoice"}

\* the owner field of the records a handler works on
OwnerField(op) == IF op \in SaleRecordOps THEN "sold_by" ELSE "added_by"

\* the records a handler works on: as they were when the request arrived, and now
RecordsBefore(p) ==
    IF req[p].op \in SaleRecordOps THEN req[p].before.sales ELSE req[p].before.expenses

RecordsNow(p) == IF req[p].op \in SaleRecordOps THEN sales ELSE expenses

\* the lines under the request's invoice number when the request arrived
InvoiceLinesBefore(p) == {row \in RecordsBefore(p) : row.invoice_no = req[p].invoice_no}

OwnedBy(row, p) == row[OwnerField(req[p].op)] = req[p].user.id

\* no table differs from what it was when the request arrived
NothingChanged(p) ==
    /\ sales = req[p].before.sales
    /\ expenses = req[p].before.expenses
    /\ inventory = req[p].before.inventory

DeniedPermission(p) == Finished(p) /\ req[p].result.status = 403

\* the lines the request created are in the table, under the supplied invoice
\* number and owned by the requesting principal
AppendedLinesStamped(p) ==
    \A i \in DOMAIN req[p].created :
        \E row \in RecordsNow(p) :
            /\ row.id = req[p].created[i].id
            /\ row.invoice_no = req[p].invoice_no
            /\ OwnedBy(row, p)

C10_ReadsShowOwnRecords ==
    \A p \in Workers :
        /\ Finished(p)
        /\ req[p].op \in ReadOps
        =>  LET matching == IF req[p].op \in InvoiceReadOps THEN InvoiceLinesBefore(p)
                            ELSE RecordsBefore(p)
            IN  /\ req[p].user.role = "staff"
                   => req[p].rows = {row \in matching : OwnedBy(row, p)}
                /\ req[p].user.role = "admin" => req[p].rows = matching

\* a staff principal got the invoice document of an invoice that also holds a
\* line of another principal, and an admin got every line of the same invoice
C10_Witness ==
    \E p, q \in Workers :
        /\ req[p].op = "generate_invoice" /\ req[p].user.role = "staff"
        /\ Finished(p) /\ req[p].rows # {}
        /\ \E row \in InvoiceLinesBefore(p) : row \notin req[p].rows
        /\ req[q].op = "generate_invoice" /\ req[q].user.role = "admin"
        /\ Finished(q) /\ req[q].invoice_no = req[p].invoice_no
        /\ req[q].rows = InvoiceLinesBefore(q) /\ Cardinality(req[q].rows) > 1


(* ------------------- properties: sales against the stock --------------- *)
\* the sale the request names, as it was when the request arrived
SaleBefore(p) == FindUnique(req[p].before.sales, req[p].target)

\* the products carrying exactly the sale's product_name and category
SameProduct(table, sale) ==
    {row \in table : row.product_name = sale.product_name /\ row.category = sale.category}

\* the table with `amount` added to the quantity of one row
Credited(table, product, amount) ==
    (table \ {product}) \cup {[product EXCEPT !.quantity = @ + amount]}

\* C11: with requests served one at a time, a delete of an existing sale
\* succeeds and removes exactly that sale; with restore requested and a product
\* of the sale's product_name and category in the inventory, one such
\* product's quantity grows by exactly the sale's quantity and no other row
\* changes; with no such product, or without restore, no product row changes.
C11_DeleteRestoresMatchingProduct ==
    \A p \in Workers :
        /\ req[p].op = "delete_sale" /\ Finished(p) /\ Latest(p)
        /\ SaleBefore(p) # NoRow
        =>  LET sale == SaleBefore(p)
                matching == SameProduct(req[p].before.inventory, sale)
            IN  /\ req[p].result = Ok(204)
                /\ sales = req[p].before.sales \ {sale}
                /\ req[p].restore /\ matching # {}
                   => \E product \in matching :
                         inventory = Credited(req[p].before.inventory, product, sale.quantity)
                /\ ~req[p].restore \/ matching = {}
                   => inventory = req[p].before.inventory

\* a delete with restore has credited the product, the product was then
\* deleted, and a second delete with restore found no product to credit
C11_Witness ==
    \E p, q \in Workers :
        /\ req[p].op = "delete_sale" /\ req[p].restore /\ Succeeded(p)
        /\ SameProduct(req[p].before.inventory, SaleBefore(p)) # {}
        /\ req[q].op = "delete_sale" /\ req[q].restore /\ Succeeded(q) /\ Latest(q)
        /\ req[q].no > req[p].no
        /\ SaleBefore(q) # NoRow
        /\ SameProduct(req[q].before.inventory, SaleBefore(q)) = {}
        /\ inventory = req[q].before.inventory


\* the total quantity of the sale lines of a product
SoldQuantity(sale_rows, product) ==
    LET lines == SameProduct(sale_rows, product)
    IN  SumOf([row \in lines |-> row.quantity], lines)

\* the request is a sale, a change of a sale or a delete with restore
MovesStock(p) ==
    \/ req[p].op \in {"create_sale", "update_sale"}
    \/ req[p].op = "delete_sale" /\ req[p].restore

InScope(table, owner_field, u) ==
    IF u.role = "admin" THEN table ELSE {row \in table : row[owner_field] = u.id}

DashboardDone(p) == req[p].op = "dashboard" /\ Finished(p)

\* the sum of sale_price * quantity, of cost_price * quantity, of amount
TotalRevenue(sale_rows) == SumOf([row \in sale_rows |-> row.sale_price * row.quantity], sale_rows)

TotalCogs(sale_rows) == SumOf([row \in sale_rows |-> row.cost_price * row.quantity], sale_rows)

TotalAmount(expense_rows) == SumOf([row \in expense_rows |-> row.amount], expense_rows)

\* C12: the dashboard's total_profit is the total of sale_price * quantity
\* minus the total of the stored cost_price * quantity minus the total of the
\* expense amounts, over the rows in the principal's scope.
C12_ProfitSubtractsCogsAndExpenses ==
    \A p \in Workers :
        DashboardDone(p)
        =>  LET sale_rows == InScope(sales, "sold_by", req[p].user)
                expense_rows == InScope(expenses, "added_by", req[p].user)
            IN  req[p].report.total_profit
                  = TotalRevenue(sale_rows) - TotalCogs(sale_rows) - TotalAmount(expense_rows)

\* a dashboard over sales and expenses whose profit is not revenue minus
\* expenses alone
C12_Witness ==
    \E p \in Workers :
        /\ DashboardDone(p)
        /\ req[p].report.sales_count > 1 /\ req[p].report.expenses_count > 0
        /\ req[p].report.total_profit # req[p].report.total_sales - req[p].report.total_expenses

\* C13: the dashboard's total_pending is the sum, over the in-scope sales of
\* payment_type "2" (ADVANCE), of sale_price * quantity minus advance_amount;
\* a sale of payment_type "1" (FULL) adds nothing, whatever advance it stores.
C13_PendingCountsAdvanceSalesOnly ==
    \A p \in Workers :
        DashboardDone(p)
        =>  LET advance_sales == {row \in InScope(sales, "sold_by", req[p].user) :
                                     row.payment_type = "2"}
            IN  req[p].report.total_pending
                  = SumOf([row \in advance_sales |->
                              row.sale_price * row.quantity - row.advance_amount],
                          advance_sales)

\* the scope holds a FULL sale with a stored advance of 30 and an ADVANCE sale
\* of revenue 100 with an advance of 30, and the latter alone adds its 70
C13_Witness ==
    \E p \in Workers :
        /\ DashboardDone(p) /\ req[p].user = StaffA
        /\ \E full, advance \in sales :
              /\ full.sold_by = StaffA.id /\ full.payment_type = "1"
              /\ full.advance_amount = 30 * Unit
              /\ advance.sold_by = StaffA.id /\ advance.payment_type = "2"
              /\ advance.sale_price * advance.quantity = 100 * Unit
              /\ advance.advance_amount = 30 * Unit
        /\ req[p].report.total_pending = 70 * Unit

\* C14: the dashboard's sales and expense figures are taken over all rows for
\* an ADMIN and over the rows the principal owns for a STAFF principal, and
\* inventory_value and inventory_count over all Product rows for everyone.
C14_DashboardScope ==
    \A p \in Workers :
        DashboardDone(p)
        =>  LET sale_rows == InScope(sales, "sold_by", req[p].user)
                expense_rows == InScope(expenses, "added_by", req[p].user)
            IN  /\ req[p].report.total_sales = TotalRevenue(sale_rows)
                /\ req[p].report.sales_count = Cardinality(sale_rows)
                /\ req[p].report.total_expenses = TotalAmount(expense_rows)
                /\ req[p].report.expenses_count = Cardinality(expense_rows)
                /\ req[p].report.inventory_value
                     = SumOf([row \in inventory |-> row.cost_price * row.quantity], inventory)
                /\ req[p].report.inventory_count = Cardinality(inventory)

\* a staff principal and the admin have asked for the dashboard of a store
\* that holds rows of another principal: the former got fewer sales, both the
\* same inventory figures
C14_Witness ==
    \E p, q \in Workers :
        /\ DashboardDone(p) /\ req[p].user.role = "staff"
        /\ DashboardDone(q) /\ req[q].user.role = "admin"
        /\ 0 < req[p].report.sales_count
        /\ req[p].report.sales_count < req[q].report.sales_count
        /\ req[p].report.expenses_count < req[q].report.expenses_count
        /\ req[q].report.sales_count = Cardinality(sales)
        /\ req[p].report.inventory_value = req[q].report.inventory_value
        /\ req[p].report.inventory_count = 2


MonthlyReportDone(p) == req[p].op = "monthly_report" /\ Finished(p)

\* the rows created in a calendar month of a year
CreatedIn(table, year, month) ==
    {row \in table : row.created_at[1] = year /\ row.created_at[2] = month}

Months == 1..12

\* C15: the monthly report of a STAFF principal is taken over the rows that
\* principal owns: each month's revenue and expenses and the yearly totals
\* are those of the principal's own sales and expenses of the year, so rows
\* of other principals never show in them.
C15_StaffMonthlyReportOwnRowsOnly ==
    \A p \in Workers :
        MonthlyReportDone(p) /\ req[p].user.role = "staff"
        =>  LET own_sales == {row \in sales : row.sold_by = req[p].user.id}
                own_expenses == {row \in expenses : row.added_by = req[p].user.id}
                year == req[p].target
            IN  /\ \A m \in Months :
                      /\ req[p].report.months[m].revenue
                           = TotalRevenue(CreatedIn(own_sales, year, m))
                      /\ req[p].report.months[m].expenses
                           = TotalAmount(CreatedIn(own_expenses, year, m))
                /\ req[p].report.total_revenue
                     = SumOf([m \in Months |-> TotalRevenue(CreatedIn(own_sales, year, m))],
                             Months)
                /\ req[p].report.total_expenses
                     = SumOf([m \in Months |-> TotalAmount(CreatedIn(own_expenses, year, m))],
                             Months)

\* every amount is a whole number of currency units
WholeAmounts ==
    /\ \A row \in sales : row.sale_price % Unit = 0 /\ row.cost_price % Unit = 0
    /\ \A row \in expenses : row.amount % Unit = 0

\* C16: for sales and expenses of whole amounts, the yearly report returns
\* twelve monthly figures, its total_profit is the sum of the monthly
\* revenues minus the sum of the monthly COGS minus the sum of the monthly
\* expenses, and it is the sum of the twelve monthly profits.
C16_YearlyProfitIsSumOfMonths ==
    \A p \in Workers :
        MonthlyReportDone(p) /\ WholeAmounts
        =>  LET months == req[p].report.months
                year == req[p].target
            IN  /\ DOMAIN months = Months
                /\ req[p].report.total_profit
                     = SumOf([m \in Months |-> months[m].revenue], Months)
                       - SumOf([m \in Months |-> TotalCogs(CreatedIn(sales, year, m))], Months)
                       - SumOf([m \in Months |-> months[m].expenses], Months)
                /\ req[p].report.total_profit
                     = SumOf([m \in Months |-> months[m].profit], Months)

\* a report of a year with sales in two months, one of them with an expense
C16_Witness ==
    \E p \in Workers :
        /\ MonthlyReportDone(p)
        /\ req[p].report.months[1].profit # 0
        /\ req[p].report.months[1].expenses # 0
        /\ req[p].report.months[12].profit # 0
        /\ req[p].report.total_profit # req[p].report.total_revenue
                                            - req[p].report.total_expenses


(* ----------------------- properties: expense names --------------------- *)
\* the material_name and vendor_name of the response built from a stored row
Returned(row) == SplitName(row.material_name)

\* the request was served with no other request in service
Alone(p) == req[p].overlaps = {} /\ Latest(p)

ProductBefore(p) == FindUnique(req[p].before.inventory, req[p].target)

\* the fields the body of an update gives have the body's values
CarriesUpdate(row, data) ==
    /\ data.quantity # {} => row.quantity \in data.quantity
    /\ data.cost_price # {} => row.cost_price \in data.cost_price

\* C19: with requests served one at a time, for every principal, ADMIN or
\* STAFF: the product list holds every Product row; an update or delete of an
\* existing product succeeds whoever added it, the update writing the body's
\* values and the delete removing the row; an update or delete of a product
\* that does not exist ends with 404 and changes no table.
C19_InventoryIsShared ==
    \A p \in Workers :
        Finished(p) /\ Latest(p)
        =>  /\ req[p].op = "get_inventory_products"
               => req[p].result = Ok(200) /\ req[p].rows = req[p].before.inventory
            /\ req[p].op \in {"update_product", "delete_product"} /\ ProductBefore(p) = NoRow
               => req[p].result.status = 404 /\ NothingChanged(p)
            /\ req[p].op = "update_product" /\ ProductBefore(p) # NoRow
               =>  /\ req[p].result = Ok(200)
                   /\ \E row \in inventory :
                         /\ row.id = req[p].target
                         /\ CarriesUpdate(row, req[p].data)
                         /\ inventory \ {row} = req[p].before.inventory \ {ProductBefore(p)}
            /\ req[p].op = "delete_product" /\ ProductBefore(p) # NoRow
               =>  /\ req[p].result = Ok(204)
                   /\ inventory = req[p].before.inventory \ {ProductBefore(p)}

\* a staff principal has listed both products, a second staff principal has
\* then deleted a product that the admin added
C19_Witness ==
    \E p, q \in Workers :
        /\ req[p].op = "get_inventory_products" /\ req[p].user = StaffB /\ Finished(p)
        /\ Cardinality(req[p].rows) = 2
        /\ req[q].op = "delete_product" /\ req[q].user = StaffA
        /\ Succeeded(q) /\ Latest(q)
        /\ ProductBefore(q) # NoRow /\ ProductBefore(q).added_by = Admin.id
        /\ Cardinality(inventory) = 1


(* ------------------------ properties: lost updates --------------------- *)
\* the workers that hold a sale request that has succeeded
SoldOut == {p \in Workers : req[p].op \in SaleOps /\ Succeeded(p)}

Debited(p, product_id) ==
    OnHandBefore(p, product_id) - FindUnique(inventory, product_id).quantity

\* the batch names the same product on more than one line
NamesTwice(items, product_id) ==
    \E i, j \in DOMAIN items :
        i # j /\ items[i].product_id = product_id /\ items[j].product_id = product_id

HasInvalidItem(items) ==
    \E i \in DOMAIN items : items[i].quantity <= 0 \/ items[i].sale_price <= 0

SamePaymentPerInvoice(table, payment_field) ==
    \A a, b \in table :
        a.invoice_no # None /\ a.invoice_no = b.invoice_no =>
            /\ a[payment_field] = b[payment_field]
            /\ a.advance_amount = b.advance_amount

CostBefore(p, i) == FindUnique(req[p].before.inventory, req[p].items[i].product_id).cost_price

BucketsOf(row, table, year) == {m \in Months : row \in InMonth(table, year, m)}

\* every row of the table dated in the year is returned for its own calendar
\* month and for no other, and a row dated outside the year for none
Partitioned(table, year) ==
    \A row \in table :
        BucketsOf(row, table, year) =
            IF row.created_at[1] = year THEN {row.created_at[2]} ELSE {}

\* C26: the twelve monthly queries of a year partition the rows of the year:
\* each sale and each expense dated in the year is counted in the bucket of
\* its calendar month and in no other, rows dated outside the year are
\* counted in none (a row dated January 1 of the next year is not in
\* December's bucket), and the figures of a finished report are those of the
\* rows of each calendar month.
C26_MonthlyBucketsPartitionTheYear ==
    /\ Partitioned(sales, ReportYear) /\ Partitioned(expenses, ReportYear)
    /\ \A p \in Workers :
          MonthlyReportDone(p) /\ WholeAmounts =>
              \A m \in Months :
                  /\ req[p].report.months[m].revenue
                        = TotalRevenue(CreatedIn(sales, req[p].target, m))
                  /\ req[p].report.months[m].expenses
                        = TotalAmount(CreatedIn(expenses, req[p].target, m))

\* a finished report over sales dated on the first day of a month, on the
\* last day of December and on January 1 of the next year
C26_Witness ==
    \E p \in Workers :
        /\ MonthlyReportDone(p)
        /\ \E row \in sales : row.created_at = <<ReportYear, 2, 1>>
        /\ \E row \in sales : row.created_at = <<ReportYear, 12, 31>>
        /\ \E row \in sales : row.created_at = <<ReportYear + 1, 1, 1>>
        /\ \E row \in expenses : row.created_at = <<ReportYear, 1, 1>>
        /\ req[p].report.months[12].revenue # 0
        /\ req[p].report.months[2].revenue # 0

OnHandOf(table, sale) ==
    SumOf([row \in MatchingProducts(table, sale) |-> row.quantity],
          MatchingProducts(table, sale))

\* C28: when two deletes with restore of the same sale have been served,
\* together in any interleaving or one after the other, the on-hand quantity
\* of the sale's product has grown by the sale's quantity, once; and a
\* delete served alone that ends with 404 has changed no product quantity.
C28_RestoreCreditedOnce ==
    /\ \A p, q \in Workers :
          /\ req[p].op = "delete_sale" /\ req[q].op = "delete_sale"
          /\ req[p].restore /\ req[q].restore
          /\ req[p].target = req[q].target
          /\ req[p].no = 1 /\ req[q].no = 2
          /\ Finished(p) /\ Finished(q)
          /\ Exists(req[p].before.sales, req[p].target)
          =>  LET sale == FindUnique(req[p].before.sales, req[p].target)
              IN  OnHandOf(inventory, sale)
                      = OnHandOf(req[p].before.inventory, sale) + sale.quantity
    /\ \A p \in Workers :
          /\ req[p].op = "delete_sale" /\ Alone(p)
          /\ Finished(p) /\ req[p].result.status = 404
          => Quantities(inventory) = Quantities(req[p].before.inventory)

StaffIds == {u.id : u \in {x \in Principals : x.role = "staff"}}

\* the line records of both tables as <<owner, invoice number>>
OwnedLines(sale_rows, expense_rows) ==
    {<<row.sold_by, row.invoice_no>> : row \in sale_rows}
        \cup {<<row.added_by, row.invoice_no>> : row \in expense_rows}

\* the row keeps its owner and its invoice number
SameOwnerAndInvoice(row, old, owner_field) ==
    row[owner_field] = old[owner_field] /\ row.invoice_no = old.invoice_no

\* the STAFF principal of the request may hold the new line: the request is a
\* bulk request whose number came from the sequence and was carried by no
\* line of a STAFF principal, or an append under a number the principal
\* already held a line of in that table
MayHold(p, row, owner_field, before_rows) ==
    /\ row[owner_field] = req[p].user.id
    /\ row.invoice_no = req[p].invoice_no
    /\ \/ /\ req[p].op \in CreateInvoiceOps /\ req[p].mode = "sequence"
          /\ \E i \in DOMAIN issued : issued[i].invoice_no = row.invoice_no
          /\ \A line \in OwnedLines(req[p].before.sales, req[p].before.expenses) :
                line[2] = row.invoice_no => line[1] \notin StaffIds
       \/ /\ req[p].op \in OwnedAppendOps
          /\ \E old \in before_rows :
                old.invoice_no = row.invoice_no /\ old[owner_field] = req[p].user.id

====
